---- MODULE Spec2Model ----
(***************************************************************************)
(* A model of primap2's alias-translation layer (_alias_selection.py) and  *)
(* of the tabular ingestion pipeline (pm2io/_data_reading.py).             *)
(*                                                                         *)
(* Python strings are modelled as sequences of one-character strings, so   *)
(* that the string parsing the code does (split, slicing, "in",            *)
(* startswith, f-strings) is computed rather than assumed.  A hashable     *)
(* that is not a string (an int used as a dimension name) is a sequence    *)
(* holding one token that is not a character.                              *)
(***************************************************************************)
EXTENDS Integers, Sequences, FiniteSets, TLC

VARIABLES
    kind,       \* alias layer: "da" (DataArray), "ds" (Dataset) or "none"
    dims,       \* alias layer: the container's axis names, in order
    attrs,      \* alias layer: the Dataset's attrs (a function on the present keys)
    op,         \* alias layer: the operation that ran last
    arg,        \* alias layer: what it was called with
    out,        \* alias layer: what it returned, raised or delegated
    pc,         \* ingestion: the stage the call is at
    params,     \* ingestion: the arguments of the call
    data_in,    \* ingestion: the table as the caller passed it
    data,       \* ingestion: the table being worked on
    res         \* ingestion: what the call has produced so far

aliasVars == <<kind, dims, attrs, op, arg, out>>
tableVars == <<pc, params, data_in, data, res>>
vars == <<kind, dims, attrs, op, arg, out, pc, params, data_in, data, res>>

-----------------------------------------------------------------------------
(* Bounds of the model.                                                    *)

MaxDims == 2        \* axis names per container
MaxKeys == 2        \* keys of a selection mapping / names in a list of dimensions
MaxSecCats == 1     \* entries of the sec_cats attribute
MaxArgs == 2        \* positional arguments of a wrapped call
MaxFilterRows == 2  \* rows of a table given to filter_data
MaxUnitRows == 3    \* rows of a table given to harmonize_units
MaxSortRows == 2    \* rows of a table given to sort_columns_and_rows on its own
MaxMapRows == 2     \* rows of a table given to map_metadata
MaxFillRows == 2    \* rows of a table given to fill_from_other_col
MaxOptionalRows == 2  \* rows of a table given to harmonize_units with optional arguments
MaxMappings == 2    \* items of a coords_value_mapping given to map_metadata
MaxDefaults == 2    \* entries of a coords_defaults given to add_dimensions_from_defaults
MaxAddCoords == 2   \* auxiliary coordinates of a call of additional_coordinate_metadata
MaxLongRows == 2    \* rows of a table given to convert_long_dataframe_if
MaxWideRows == 2    \* rows of a table given to convert_wide_dataframe_if
MaxFilters == 2     \* filters of filter_keep and of filter_remove

-----------------------------------------------------------------------------
(* Python strings.                                                         *)

\* the characters of the model, in code point order
Ascii == <<" ", "(", ")", "-", "/", "0", "1", "2", "3", "4", "5", "6", "7", "8", "9",
           "A", "C", "D", "E", "F", "G", "H", "I", "K", "M", "N", "O", "P", "R", "S", "T", "U",
           "W", "Y",
           "_", "a", "b", "c", "d", "e", "f", "g", "h", "i", "k", "l", "m", "n", "o", "p",
           "r", "s", "t", "u", "v", "x", "y">>

Char == {Ascii[i] : i \in DOMAIN Ascii}

\* ord(c)
Ord(c) == CHOOSE i \in DOMAIN Ascii : Ascii[i] = c

\* a < b on str
StrLess(a, b) ==
    \E k \in 1 .. Len(b) :
        /\ k - 1 <= Len(a)
        /\ \A i \in 1 .. (k - 1) : a[i] = b[i]
        /\ k > Len(a) \/ Ord(a[k]) < Ord(b[k])

\* sorted(S) for a collection of distinct str
RECURSIVE sorted(_)
sorted(S) ==
    IF S = {} THEN <<>>
    ELSE LET least == CHOOSE x \in S : \A y \in S : x = y \/ StrLess(x, y)
         IN <<least>> \o sorted(S \ {least})

isinstance_str(x) == \A i \in DOMAIN x : x[i] \in Char

\* a[i:] with i counted from 1
Drop(s, n) == SubSeq(s, n + 1, Len(s))
Take(s, n) == SubSeq(s, 1, n)

\* s.startswith(p)
StartsWith(s, p) == Len(p) <= Len(s) /\ Take(s, Len(p)) = p

\* the positions (from 1) where sub occurs in s
Occurrences(s, sub) ==
    {i \in 1 .. (Len(s) - Len(sub) + 1) : SubSeq(s, i, i + Len(sub) - 1) = sub}

\* sub in s
Contains(s, sub) == Occurrences(s, sub) # {}

Min(S) == CHOOSE x \in S : \A y \in S : x <= y

\* s.split(c)[0]
SplitFirst(s, c) ==
    IF Contains(s, <<c>>) THEN Take(s, Min(Occurrences(s, <<c>>)) - 1) ELSE s

\* s[:-1]
DropLast(s) == IF Len(s) = 0 THEN s ELSE Take(s, Len(s) - 1)

\* the text before the first " (" (the whole string when there is none)
TextBefore(s, sub) ==
    IF Contains(s, sub) THEN Take(s, Min(Occurrences(s, sub)) - 1) ELSE s

s_paren == <<" ", "(">>
s_area == <<"a", "r", "e", "a">>
s_category == <<"c", "a", "t", "e", "g", "o", "r", "y">>
s_scenario == <<"s", "c", "e", "n", "a", "r", "i", "o">>
s_entity == <<"e", "n", "t", "i", "t", "y">>
s_unit == <<"u", "n", "i", "t">>
s_gas == <<"g", "a", "s">>
s_ISO3 == <<"I", "S", "O", "3">>
s_ISO2 == <<"I", "S", "O", "2">>
s_T == <<"T">>
s_fx == <<"f", "(", "x", ")">>
s_USA == <<"U", "S", "A">>
s_DEU == <<"D", "E", "U">>

\* f"{d} ({t})"
Qualified(d, t) == d \o s_paren \o t \o <<")">>

\* the int 0 used as a dimension name
int_0 == <<"int:0">>

-----------------------------------------------------------------------------
(* Python dicts.  A translation table is only looked up, so it is a        *)
(* function; a selection mapping is iterated, so it is the sequence of its *)
(* <<key, value>> items in insertion order.                                *)

EmptyDict == [k \in {} |-> <<>>]

\* d[k] = v on a lookup table
DictPut(d, k, v) == [x \in DOMAIN d \cup {k} |-> IF x = k THEN v ELSE d[x]]

\* d.get(k, default)
DictGet(d, k, default) == IF k \in DOMAIN d THEN d[k] ELSE default

ItemKeys(m) == {m[i][1] : i \in DOMAIN m}

\* m[k] on an item sequence holding k
ItemValue(m, k) == m[CHOOSE i \in DOMAIN m : m[i][1] = k][2]

\* m[k] = v on an item sequence: an existing key keeps its place
ItemPut(m, k, v) ==
    IF k \in ItemKeys(m)
    THEN [i \in DOMAIN m |-> IF m[i][1] = k THEN <<k, v>> ELSE m[i]]
    ELSE Append(m, <<k, v>>)

-----------------------------------------------------------------------------
(* _alias_selection.py                                                     *)

RECURSIVE translate_items(_, _, _)
translate_items(item, translations, sel) ==
    IF item = <<>> THEN sel
    ELSE LET key == item[1][1]
             val == item[1][2]
         IN translate_items(Tail(item), translations,
                IF key \in DOMAIN translations
                THEN ItemPut(sel, translations[key], val)
                ELSE ItemPut(sel, key, val))

\* translate(item, translations) for a str
translate_lookup(item, translations) ==
    IF item \in DOMAIN translations THEN translations[item] ELSE item

translate_str(item, translations) == translate_lookup(item, translations)

\* a bug: the first of two keys resolving to one name wins
translate_map_first_wins(item, translations) ==
    translate_items([i \in DOMAIN item |-> item[Len(item) + 1 - i]], translations, <<>>)

\* translate(item, translations) for a mapping
translate_map(item, translations) == translate_items(item, translations, <<>>)

Ok(v) == [ok |-> TRUE, val |-> v]
DimensionNotExistingError(dim) == [ok |-> FALSE, val |-> dim]

\* a bug: the name is not looked up
alias_resolve_unresolved(dim, translations) == dim

\* translations.get(dim, dim)
alias_resolve(dim, translations) == DictGet(translations, dim, dim)

\* alias(dim, translations, dims) for a single hashable: a str is looked up,
\* any other hashable is not iterable and is only checked
alias_one(dim, translations, dimset) ==
    IF isinstance_str(dim)
    THEN LET r == alias_resolve(dim, translations)
         IN IF r \notin dimset THEN DimensionNotExistingError(r) ELSE Ok(r)
    ELSE IF dim \notin dimset THEN DimensionNotExistingError(dim) ELSE Ok(dim)

RECURSIVE alias_loop(_, _, _, _)
alias_loop(dim, translations, dimset, rdim) ==
    IF dim = <<>> THEN Ok(rdim)
    ELSE LET r == alias_one(dim[1], translations, dimset)
         IN IF r.ok
            THEN alias_loop(Tail(dim), translations, dimset, Append(rdim, r.val))
            ELSE r

\* alias(dim, translations, dims) for a sequence of hashables
alias_seq(dim, translations, dimset) == alias_loop(dim, translations, dimset, <<>>)

-----------------------------------------------------------------------------
(* dim_alias_translations                                                  *)

\* dim.split("(")[0][:-1]
short_key(dim) == DropLast(SplitFirst(dim, "("))

RECURSIVE da_translations_loop(_, _)
da_translations_loop(ds, ret) ==
    IF ds = <<>> THEN ret
    ELSE da_translations_loop(Tail(ds),
            IF isinstance_str(ds[1]) /\ Contains(ds[1], s_paren)
            THEN DictPut(ret, short_key(ds[1]), ds[1])
            ELSE ret)

da_dim_alias_translations(ds) == da_translations_loop(ds, EmptyDict)

attr_pairs == << <<s_category, "cat">>, <<s_scenario, "scen">>, <<s_area, "area">> >>

RECURSIVE ds_attr_loop(_, _, _)
ds_attr_loop(pairs, at, ret) ==
    IF pairs = <<>> THEN ret
    ELSE ds_attr_loop(Tail(pairs), at,
            IF pairs[1][2] \in DOMAIN at
            THEN DictPut(ret, pairs[1][1], at[pairs[1][2]])
            ELSE ret)

RECURSIVE ds_sec_cats_loop(_, _)
ds_sec_cats_loop(sec_cats, ret) ==
    IF sec_cats = <<>> THEN ret
    ELSE ds_sec_cats_loop(Tail(sec_cats),
            DictPut(ret, short_key(sec_cats[1]), sec_cats[1]))

ds_dim_alias_translations(at) ==
    LET ret == ds_attr_loop(attr_pairs, at, EmptyDict)
    IN IF "sec_cats" \in DOMAIN at THEN ds_sec_cats_loop(at["sec_cats"], ret) ELSE ret

\* obj.pr.dim_alias_translations of the container of the current state
dim_alias_translations ==
    IF kind = "da" THEN da_dim_alias_translations(dims)
    ELSE ds_dim_alias_translations(attrs)

Range(s) == {s[i] : i \in DOMAIN s}

-----------------------------------------------------------------------------
(* alias_dims: the decorator's wrapper.  A decorated method is its          *)
(* signature without self (inspect.signature(wrap_func).parameters), the    *)
(* decorator's args_to_alias and its additional_allowed_values.             *)

POSITIONAL_OR_KEYWORD == "POSITIONAL_OR_KEYWORD"
VAR_POSITIONAL == "VAR_POSITIONAL"
KEYWORD_ONLY == "KEYWORD_ONLY"
VAR_KEYWORD == "VAR_KEYWORD"

Param(n, k) == [name |-> n, kind |-> k]

\* translate_arg for the positional argument at index i (from 1)
translate_arg(func_args_list, args_to_alias, i) ==
    IF i <= Len(func_args_list)
    THEN func_args_list[i].name \in args_to_alias
    ELSE /\ Len(func_args_list) > 0
         /\ func_args_list[Len(func_args_list)].kind = VAR_POSITIONAL
         /\ func_args_list[Len(func_args_list)].name \in args_to_alias

\* the loop over kwargs: the first aliased keyword that fails raises
wrapper_kwargs(kwargs, args_to_alias, translations, dimset) ==
    LET aliased == {k \in DOMAIN kwargs : k \in args_to_alias}
        failing == {k \in aliased : ~alias_one(kwargs[k], translations, dimset).ok}
    IN IF failing # {}
       THEN alias_one(kwargs[CHOOSE k \in failing : TRUE], translations, dimset)
       ELSE Ok([k \in DOMAIN kwargs |->
                   IF k \in aliased
                   THEN alias_one(kwargs[k], translations, dimset).val
                   ELSE kwargs[k]])

RECURSIVE wrapper_args(_, _, _, _, _, _, _)
wrapper_args(args, i, func_args_list, args_to_alias, translations, dimset, args_translated) ==
    IF i > Len(args) THEN Ok(args_translated)
    ELSE IF translate_arg(func_args_list, args_to_alias, i)
         THEN LET r == alias_one(args[i], translations, dimset)
              IN IF r.ok
                 THEN wrapper_args(args, i + 1, func_args_list, args_to_alias,
                                   translations, dimset, Append(args_translated, r.val))
                 ELSE r
         ELSE wrapper_args(args, i + 1, func_args_list, args_to_alias,
                           translations, dimset, Append(args_translated, args[i]))

\* wrapper(self, *args, **kwargs): what func is called with, or the error raised
wrapper(method, args, kwargs, translations, container_dims) ==
    LET dimset == container_dims \cup method.additional_allowed_values
        kw == wrapper_kwargs(kwargs, method.args_to_alias, translations, dimset)
    IN IF ~kw.ok THEN [ok |-> FALSE, err |-> kw.val]
       ELSE LET ar == wrapper_args(args, 1, method.sig, method.args_to_alias,
                                   translations, dimset, <<>>)
            IN IF ~ar.ok THEN [ok |-> FALSE, err |-> ar.val]
               ELSE [ok |-> TRUE, args |-> ar.val, kwargs |-> kw.val]

-----------------------------------------------------------------------------
(* The inputs of the alias layer.                                          *)

area_ISO3 == Qualified(s_area, s_ISO3)
area_ISO2 == Qualified(s_area, s_ISO2)
fx_T == Qualified(s_fx, s_T)
category_T == Qualified(s_category, s_T)
scenario_T == Qualified(s_scenario, s_T)

\* axis names of a DataArray
DaAxisNames == {s_area, area_ISO3, area_ISO2, fx_T, s_gas, int_0}
\* axis names of a Dataset
DsAxisNames == {area_ISO3, s_gas}
\* entries of the sec_cats attribute
SecCatNames == {s_gas, fx_T}
\* names a caller selects by
KeyNames == {s_area, area_ISO3, s_category, s_gas}
\* selector values
SelValues == {s_USA, s_DEU}
\* positional and keyword arguments of a wrapped call
ArgValues == {s_area, area_ISO3, s_gas}

\* the sequences of at most n elements of S
SeqsUpTo(S, n) == UNION {[1 .. m -> S] : m \in 0 .. n}

\* the sequences without repetition of at most n elements of S
DistinctSeqs(S, n) ==
    {s \in SeqsUpTo(S, n) : \A i, j \in DOMAIN s : i # j => s[i] # s[j]}

\* the selection mappings of at most n items
Mappings(n) ==
    UNION {{[i \in 1 .. m |-> <<ks[i], vs[i]>>] : ks \in {k \in DistinctSeqs(KeyNames, m) : Len(k) = m},
                                                   vs \in [1 .. m -> SelValues]} : m \in 0 .. n}

DsAttrs ==
    {a @@ b @@ c @@ d :
        a \in {EmptyDict, "cat" :> category_T},
        b \in {EmptyDict, "scen" :> scenario_T},
        c \in {EmptyDict, "area" :> area_ISO3},
        d \in {EmptyDict} \cup {"sec_cats" :> s : s \in DistinctSeqs(SecCatNames, MaxSecCats)}}

Methods ==
    { [sig |-> <<Param("dim", POSITIONAL_OR_KEYWORD)>>,
       args_to_alias |-> {"dim"}, additional_allowed_values |-> {}],
      [sig |-> <<Param("dim", POSITIONAL_OR_KEYWORD), Param("other", POSITIONAL_OR_KEYWORD)>>,
       args_to_alias |-> {"dim"}, additional_allowed_values |-> {s_gas}],
      [sig |-> <<Param("other", POSITIONAL_OR_KEYWORD), Param("dim", VAR_POSITIONAL)>>,
       args_to_alias |-> {"dim"}, additional_allowed_values |-> {}],
      [sig |-> <<Param("dim", VAR_POSITIONAL), Param("keep_attrs", KEYWORD_ONLY)>>,
       args_to_alias |-> {"dim"}, additional_allowed_values |-> {}],
      [sig |-> <<Param("args", VAR_POSITIONAL), Param("kwargs", VAR_KEYWORD)>>,
       args_to_alias |-> {"dim"}, additional_allowed_values |-> {}] }

KwNames == {"dim", "other", "keep_attrs"}

\* how Python binds a call to a signature: the parameter the positional
\* argument at index i is bound to, "" when the call is not accepted
VarPositionalAt(sig) == {i \in DOMAIN sig : sig[i].kind = VAR_POSITIONAL}

BoundParam(sig, i) ==
    IF VarPositionalAt(sig) # {} /\ i >= Min(VarPositionalAt(sig) \cup {Len(sig) + 1})
    THEN sig[Min(VarPositionalAt(sig))].name
    ELSE IF i <= Len(sig) /\ sig[i].kind = POSITIONAL_OR_KEYWORD THEN sig[i].name
    ELSE ""

AcceptsKeyword(sig, k, nargs) ==
    \/ \E i \in DOMAIN sig : sig[i].kind = VAR_KEYWORD
    \/ \E i \in DOMAIN sig : sig[i].name = k /\ sig[i].kind = KEYWORD_ONLY
    \/ \E i \in DOMAIN sig :
          sig[i].name = k /\ sig[i].kind = POSITIONAL_OR_KEYWORD /\ BoundParam(sig, i) = k /\ i > nargs

ValidCall(sig, args, kwargs) ==
    /\ \A i \in DOMAIN args : BoundParam(sig, i) # ""
    /\ \A k \in DOMAIN kwargs : AcceptsKeyword(sig, k, Len(args))

\* the input sets of the operations
DaDimsInputs == DistinctSeqs(DaAxisNames, MaxDims)
DsDimsInputs == DistinctSeqs(DsAxisNames, MaxDims)
MappingInputs == Mappings(MaxKeys)
DimSeqInputs == SeqsUpTo(KeyNames, MaxKeys)
HashableInputs == KeyNames \cup {int_0}
ArgsInputs == SeqsUpTo(ArgValues, MaxArgs)
KwargsInputs == {EmptyDict} \cup {k :> v : k \in KwNames, v \in ArgValues}
CallInputs ==
    {c \in [method : Methods, args : ArgsInputs, kwargs : KwargsInputs] :
        ValidCall(c.method.sig, c.args, c.kwargs)}

-----------------------------------------------------------------------------
(* The alias layer as a state machine: a container, and the operation that *)
(* was last invoked on it.                                                 *)

AliasInit ==
    /\ \/ /\ kind = "da"
          /\ dims \in DaDimsInputs
          /\ attrs = EmptyDict
       \/ /\ kind = "ds"
          /\ dims \in DsDimsInputs
          /\ attrs \in DsAttrs
    /\ op = "none"
    /\ arg = <<>>
    /\ out = <<>>
    /\ pc = "idle"
    /\ params = <<>>
    /\ data_in = <<>>
    /\ data = <<>>
    /\ res = <<>>

\* an operation is invoked on the idle container, and its outcome observed
Call(o, a, r) ==
    /\ op' = o
    /\ arg' = a
    /\ out' = r
    /\ UNCHANGED <<kind, dims, attrs>>
    /\ UNCHANGED tableVars

TranslateStr ==
    /\ op = "none"
    /\ \E item \in KeyNames :
        Call("translate_str", item, translate_str(item, dim_alias_translations))

TranslateMap ==
    /\ op = "none"
    /\ \E item \in MappingInputs :
        Call("translate_map", item, translate_map(item, dim_alias_translations))

Alias ==
    /\ op = "none"
    /\ \E dim \in HashableInputs :
        Call("alias", dim, alias_one(dim, dim_alias_translations, Range(dims)))

AliasSeq ==
    /\ op = "none"
    /\ \E dim \in DimSeqInputs :
        Call("alias_seq", dim, alias_seq(dim, dim_alias_translations, Range(dims)))

\* DataArrayAliasLocIndexer.__getitem__
DaLocGetItem ==
    /\ op = "none"
    /\ kind = "da"
    /\ \E item \in MappingInputs :
          Call("da.pr.loc[]", item,
               [raised |-> "", key |-> translate_map(item, da_dim_alias_translations(dims))])

\* a bug: the key is delegated as given
DaLocSetItem_untranslated ==
    /\ op = "none"
    /\ kind = "da"
    /\ \E key \in MappingInputs, value \in {0, 1} :
          Call("da.pr.loc[]=", [key |-> key, value |-> value],
               [raised |-> "", key |-> key, value |-> value])

\* DataArrayAliasLocIndexer.__setitem__
DaLocSetItem ==
    /\ op = "none"
    /\ kind = "da"
    /\ \E key \in MappingInputs, value \in {0, 1} :
          Call("da.pr.loc[]=", [key |-> key, value |-> value],
               [raised |-> "", key |-> translate_map(key, da_dim_alias_translations(dims)),
                value |-> value])

\* DataArrayAliasSelectionAccessor.__getitem__ with a hashable
DaGetItem ==
    /\ op = "none"
    /\ kind = "da"
    /\ \E item \in HashableInputs :
          Call("da.pr[hashable]", item,
               [raised |-> "", key |-> DictGet(da_dim_alias_translations(dims), item, item)])

\* DataArrayAliasSelectionAccessor.__getitem__ with a mapping: dict.get hashes
\* its key, and a dict is not hashable
DaGetItemMapping ==
    /\ op = "none"
    /\ kind = "da"
    /\ \E item \in MappingInputs :
          Call("da.pr[mapping]", item, [raised |-> "TypeError", key |-> <<>>])

\* DatasetAliasLocIndexer.__getitem__
DsLocGetItem ==
    /\ op = "none"
    /\ kind = "ds"
    /\ \E item \in MappingInputs :
          Call("ds.pr.loc[]", item,
               [raised |-> "", key |-> translate_map(item, ds_dim_alias_translations(attrs))])

\* DatasetAliasSelectionAccessor.__getitem__ with a str
DsGetItemStr ==
    /\ op = "none"
    /\ kind = "ds"
    /\ \E item \in KeyNames :
          Call("ds.pr[str]", item,
               [raised |-> "", key |-> translate_str(item, ds_dim_alias_translations(attrs))])

\* DatasetAliasSelectionAccessor.__getitem__ with a mapping
DsGetItemMapping ==
    /\ op = "none"
    /\ kind = "ds"
    /\ \E item \in MappingInputs :
          Call("ds.pr[mapping]", item,
               [raised |-> "", key |-> translate_map(item, ds_dim_alias_translations(attrs))])

\* the property obj.pr.dim_alias_translations is read
ReadTranslations ==
    /\ op = "none"
    /\ Call("dim_alias_translations", <<>>, dim_alias_translations)

\* a call of a method decorated with alias_dims
WrappedCall ==
    /\ op = "none"
    /\ \E c \in CallInputs :
          Call("wrapped", c,
               wrapper(c.method, c.args, c.kwargs, dim_alias_translations, Range(dims)))

\* the caller is done with the outcome; the container is as it was
Return ==
    /\ op # "none"
    /\ op' = "none"
    /\ arg' = <<>>
    /\ out' = <<>>
    /\ UNCHANGED <<kind, dims, attrs>>
    /\ UNCHANGED tableVars

AliasNext ==
    \/ TranslateStr
    \/ TranslateMap
    \/ Alias
    \/ AliasSeq
    \/ DaLocGetItem
    \/ DaLocSetItem
    \/ DaGetItem
    \/ DaGetItemMapping
    \/ DsLocGetItem
    \/ DsGetItemStr
    \/ DsGetItemMapping
    \/ ReadTranslations
    \/ WrappedCall
    \/ Return

SpecAlias == AliasInit /\ [][AliasNext]_vars

-----------------------------------------------------------------------------
(* Tables.  A DataFrame is its column names in order, its index labels in  *)
(* row order and its rows in order, a row being a function from the column *)
(* names to the cells.                                                     *)

Frame(columns, index, rows) == [columns |-> columns, index |-> index, rows |-> rows]

\* pd.RangeIndex(n)
RangeIndex(n) == [i \in 1 .. n |-> i - 1]

\* the subsequence of s at the positions satisfying Keep, in order
RECURSIVE SelectPositions(_, _, _)
SelectPositions(s, Keep(_), i) ==
    IF i > Len(s) THEN <<>>
    ELSE IF Keep(i) THEN <<s[i]>> \o SelectPositions(s, Keep, i + 1)
         ELSE SelectPositions(s, Keep, i + 1)

\* df.query(expr, inplace=True) for a row predicate: the rows keep their labels
Query(df, Holds(_)) ==
    LET Keep(i) == Holds(df.rows[i])
    IN Frame(df.columns, SelectPositions(df.index, Keep, 1), SelectPositions(df.rows, Keep, 1))

\* df.reset_index(drop=True, inplace=True)
reset_index(df) == Frame(df.columns, RangeIndex(Len(df.rows)), df.rows)

-----------------------------------------------------------------------------
(* filter_data.  A filter specification is the sequence of its             *)
(* <<column, condition>> items, a condition being a list of values or a    *)
(* single value; filter_keep and filter_remove are the sequences of their  *)
(* filter specifications (the names of the filters are not used).  A query *)
(* string is modelled by the expression pandas parses it to.               *)

IsList(x) == x.list
ListCond(vs) == [list |-> TRUE, v |-> vs]
ValueCond(v) == [list |-> FALSE, v |-> v]

\* one column condition: "col in [...]" or "col == value"
filter_query(col, cond) ==
    IF IsList(cond) THEN [col |-> col, cmp |-> "in", v |-> cond.v]
    ELSE [col |-> col, cmp |-> "==", v |-> cond.v]

\* spec_to_query_string: the column conditions, joined with " & "
spec_to_query_string(filter_spec) ==
    [i \in DOMAIN filter_spec |-> filter_query(filter_spec[i][1], filter_spec[i][2])]

\* the value of one parsed column condition on a row
EvalCond(row, c) ==
    IF c.cmp = "in" THEN row[c.col] \in Range(c.v) ELSE row[c.col] = c.v

\* the value of "c1 & c2 & ..." on a row
EvalAnd(row, q) == \A i \in DOMAIN q : EvalCond(row, q[i])

\* a bug: the keep filters are joined with "&"
keep_query_and(row, queries) == \A i \in DOMAIN queries : EvalAnd(row, queries[i])

\* "(q1) | (q2) | ..."
keep_query(row, queries) == \E i \in DOMAIN queries : EvalAnd(row, queries[i])

\* "~(q1) & ~(q2) & ..."
remove_query(row, queries) == \A i \in DOMAIN queries : ~EvalAnd(row, queries[i])

\* a bug: nothing is filtered
filter_data_skipped(df, filter_keep, filter_remove) == reset_index(df)

\* filter_data(data, filter_keep, filter_remove); None and {} are both falsy
filter_data(df, filter_keep, filter_remove) ==
    LET keep_queries == [i \in DOMAIN filter_keep |-> spec_to_query_string(filter_keep[i])]
        remove_queries == [i \in DOMAIN filter_remove |-> spec_to_query_string(filter_remove[i])]
        KeepHolds(row) == keep_query(row, keep_queries)
        RemoveHolds(row) == remove_query(row, remove_queries)
        kept == IF filter_keep # <<>> THEN Query(df, KeepHolds) ELSE df
        left == IF filter_remove # <<>> THEN Query(kept, RemoveHolds) ELSE kept
    IN reset_index(left)

-----------------------------------------------------------------------------
(* filter_data on its own.                                                 *)

s_FRA == <<"F", "R", "A">>
s_HISTORY == <<"H", "I", "S", "T", "O", "R", "Y">>
s_SSP == <<"S", "S", "P">>

FilterColumns == <<s_area, s_scenario>>

FilterRows ==
    {(s_area :> a) @@ (s_scenario :> sc) : a \in {s_USA, s_DEU, s_FRA}, sc \in {s_HISTORY, s_SSP}}

\* index labels a table can carry: the default ones, or those left by an
\* earlier selection
IndexInputs(n) == {RangeIndex(n), [i \in 1 .. n |-> 2 * i + 1]}

FilterSpecs ==
    { << <<s_area, ListCond(<<s_USA, s_DEU>>)>> >>,
      << <<s_scenario, ValueCond(s_HISTORY)>> >>,
      << <<s_area, ListCond(<<s_FRA>>)>>, <<s_scenario, ValueCond(s_SSP)>> >> }

\* the filters of a dict, in insertion order
FilterDicts == DistinctSeqs(FilterSpecs, MaxFilters)

AliasIdle ==
    /\ kind = "none"
    /\ dims = <<>>
    /\ attrs = EmptyDict
    /\ op = "none"
    /\ arg = <<>>
    /\ out = <<>>

FilterInit ==
    /\ AliasIdle
    /\ pc = "filter_data"
    /\ params \in [filter_keep : FilterDicts, filter_remove : FilterDicts]
    /\ \E rows \in SeqsUpTo(FilterRows, MaxFilterRows) :
          \E idx \in IndexInputs(Len(rows)) :
              data_in = Frame(FilterColumns, idx, rows)
    /\ data = data_in
    /\ res = <<>>

\* filter_data(data, filter_keep, filter_remove) alters data in place
FilterData ==
    /\ pc = "filter_data"
    /\ data' = filter_data(data, params.filter_keep, params.filter_remove)
    /\ pc' = "filtered"
    /\ UNCHANGED <<params, data_in, res>>
    /\ UNCHANGED aliasVars

FilterNext == FilterData

SpecFilter == FilterInit /\ [][FilterNext]_vars

-----------------------------------------------------------------------------
(* Numbers and units.  A number is a mantissa times a power of ten, which  *)
(* is exact for the factors between SI-prefixed units; a unit of the       *)
(* registry is its dimension and the power of ten of its prefix.           *)

Num(m, e) == [m |-> m, e |-> e]

\* x * 10^k
Times(x, k) == Num(x.m, x.e + k)

s_Gg == <<"G", "g">>
s_Mg == <<"M", "g">>
s_kg == <<"k", "g">>
s_m == <<"m">>
s_CO2 == <<"C", "O", "2">>
s_CH4 == <<"C", "H", "4">>
s_2019 == <<"2", "0", "1", "9">>
s_2020 == <<"2", "0", "2", "0">>

\* ureg[unit]
ureg == (s_Gg :> [dimension |-> "mass", exp |-> 9]) @@
        (s_Mg :> [dimension |-> "mass", exp |-> 6]) @@
        (s_kg :> [dimension |-> "mass", exp |-> 3]) @@
        (s_m :> [dimension |-> "length", exp |-> 0])

\* ureg[unit].to(unit_to).magnitude as a power of ten; incompatible units raise
conversion(unit, unit_to) ==
    IF ureg[unit].dimension = ureg[unit_to].dimension
    THEN [raised |-> "", factor |-> ureg[unit].exp - ureg[unit_to].exp]
    ELSE [raised |-> "DimensionalityError", factor |-> 0]

\* df[col]
Column(df, col) == [i \in DOMAIN df.rows |-> df.rows[i][col]]

\* Series.unique(): the distinct values in order of first appearance
unique(s) ==
    LET First(i) == \A j \in 1 .. (i - 1) : s[j] # s[i]
    IN SelectPositions(s, First, 1)

\* translations_from_attrs(attrs, include_entity): the dataset-level table,
\* with entity mapped to the terminology-qualified entity column
translations_from_attrs(at, include_entity) ==
    LET ret == ds_dim_alias_translations(at)
    IN IF include_entity /\ "entity_terminology" \in DOMAIN at
       THEN DictPut(ret, s_entity, Qualified(s_entity, at["entity_terminology"]))
       ELSE ret

-----------------------------------------------------------------------------
(* harmonize_units                                                         *)

\* data.loc[mask, data_cols] *= factor; data.loc[mask, unit_col] = unit_to
convert_masked(df, entity_col, unit_col, data_cols, entity, unit, unit_to, factor) ==
    Frame(df.columns, df.index,
          [i \in DOMAIN df.rows |->
              IF df.rows[i][entity_col] = entity /\ df.rows[i][unit_col] = unit
              THEN [c \in DOMAIN df.rows[i] |->
                       IF c \in data_cols THEN Times(df.rows[i][c], factor)
                       ELSE IF c = unit_col THEN unit_to
                       ELSE df.rows[i][c]]
              ELSE df.rows[i]])

\* a bug: every entity is converted to the unit it shows last
unit_to_last(units_this_entity) == units_this_entity[Len(units_this_entity)]

\* unit_to = units_this_entity[0]
unit_to_of(units_this_entity) == units_this_entity[1]

\* for unit in units_this_entity[1:]
RECURSIVE harmonize_units_of_entity(_, _, _, _, _, _, _)
harmonize_units_of_entity(df, entity_col, unit_col, data_cols, entity, units, unit_to) ==
    IF units = <<>> THEN [raised |-> "", data |-> df]
    ELSE LET c == conversion(units[1], unit_to)
         IN IF c.raised # "" THEN [raised |-> c.raised, data |-> df]
            ELSE harmonize_units_of_entity(
                     convert_masked(df, entity_col, unit_col, data_cols, entity,
                                    units[1], unit_to, c.factor),
                     entity_col, unit_col, data_cols, entity, Tail(units), unit_to)

\* for entity in entities
RECURSIVE harmonize_entities(_, _, _, _, _)
harmonize_entities(df, entity_col, unit_col, data_cols, entities) ==
    IF entities = <<>> THEN [raised |-> "", data |-> df]
    ELSE LET Mine(i) == df.rows[i][entity_col] = entities[1]
             units_this_entity == unique(SelectPositions(Column(df, unit_col), Mine, 1))
             r == IF Len(units_this_entity) > 1
                  THEN harmonize_units_of_entity(df, entity_col, unit_col, data_cols,
                           entities[1], Tail(units_this_entity),
                           unit_to_of(units_this_entity))
                  ELSE [raised |-> "", data |-> df]
         IN IF r.raised # "" THEN r
            ELSE harmonize_entities(r.data, entity_col, unit_col, data_cols, Tail(entities))

\* a bug: the units are left as they are
harmonize_units_skipped(df, at, dimensions) == [raised |-> "", data |-> df]

\* harmonize_units(data, attrs=attrs, dimensions=dimensions) with unit_col
\* left at None
harmonize_units(df, at, dimensions) ==
    LET data_cols == Range(df.columns) \ Range(dimensions)
        dim_aliases == translations_from_attrs(at, TRUE)
        entity_col == DictGet(dim_aliases, s_entity, s_entity)
        unit_col == DictGet(dim_aliases, s_unit, s_unit)
    IN harmonize_entities(df, entity_col, unit_col, data_cols, unique(Column(df, entity_col)))

\* harmonize_units with unit_col and attrs each given or left at None
\* (omitted names the arguments left out): dim_aliases is assigned only
\* when attrs is given, and read when unit_col is not
harmonize_units_defaults(df, omitted, unit_col, at, dimensions) ==
    LET data_cols == Range(df.columns) \ Range(dimensions)
        dim_aliases == translations_from_attrs(at, TRUE)
        entity_col == IF "attrs" \notin omitted
                      THEN DictGet(dim_aliases, s_entity, s_entity)
                      ELSE s_entity
    IN IF "unit_col" \in omitted /\ "attrs" \in omitted
       THEN [raised |-> "UnboundLocalError: dim_aliases", data |-> df]
       ELSE LET unit_col_used == IF "unit_col" \in omitted
                                 THEN DictGet(dim_aliases, s_unit, s_unit)
                                 ELSE unit_col
            IN harmonize_entities(df, entity_col, unit_col_used, data_cols,
                                  unique(Column(df, entity_col)))

-----------------------------------------------------------------------------
(* harmonize_units on its own.                                             *)

UnitColumns == <<s_area, s_entity, s_unit, s_2019, s_2020>>
UnitDimensions == <<s_area, s_entity, s_unit>>

UnitRows ==
    {(s_area :> s_USA) @@ (s_entity :> e) @@ (s_unit :> u) @@ (s_2019 :> v) @@ (s_2020 :> Num(25, 0)) :
        e \in {s_CO2, s_CH4}, u \in {s_Gg, s_Mg, s_kg, s_m}, v \in {Num(1, 0), Num(1, 3)}}

UnitRowInputs == SeqsUpTo(UnitRows, MaxUnitRows)

HarmonizeInit ==
    /\ AliasIdle
    /\ pc = "harmonize_units"
    /\ params = [attrs |-> EmptyDict, dimensions |-> UnitDimensions]
    /\ \E rows \in UnitRowInputs : data_in = Frame(UnitColumns, RangeIndex(Len(rows)), rows)
    /\ data = data_in
    /\ res = <<>>

\* harmonize_units alters data in place, up to the conversion that raises
HarmonizeUnits ==
    /\ pc = "harmonize_units"
    /\ LET r == harmonize_units(data, params.attrs, params.dimensions)
       IN /\ data' = r.data
          /\ res' = [raised |-> r.raised]
    /\ pc' = "harmonized"
    /\ UNCHANGED <<params, data_in>>
    /\ UNCHANGED aliasVars

HarmonizeNext == HarmonizeUnits

SpecHarmonize == HarmonizeInit /\ [][HarmonizeNext]_vars

-----------------------------------------------------------------------------
(* The stages of the conversion.                                           *)

SEC_CATS_PREFIX == <<"s", "e", "c", "_", "c", "a", "t", "s", "_", "_">>
s_source == <<"s", "o", "u", "r", "c", "e">>

\* _interchange_format.py
INTERCHANGE_FORMAT_MANDATORY_COLUMNS == <<s_area, s_category, s_entity, s_unit>>
INTERCHANGE_FORMAT_OPTIONAL_COLUMNS == <<s_scenario, s_source>>
INTERCHANGE_FORMAT_COLUMN_ORDER ==
    <<s_area, s_category, s_scenario, s_entity, s_unit, s_source>>

NoError == ""

\* check_mandatory_dimensions
check_mandatory_dimensions(coords_cols, coords_defaults) ==
    IF \E i \in DOMAIN INTERCHANGE_FORMAT_MANDATORY_COLUMNS :
          /\ INTERCHANGE_FORMAT_MANDATORY_COLUMNS[i] \notin ItemKeys(coords_cols)
          /\ INTERCHANGE_FORMAT_MANDATORY_COLUMNS[i] \notin ItemKeys(coords_defaults)
    THEN "ValueError: Mandatory dimension not defined."
    ELSE NoError

\* check_overlapping_specifications
check_overlapping_specifications(coords_cols, coords_defaults) ==
    IF ItemKeys(coords_cols) \cap ItemKeys(coords_defaults) # {}
    THEN "ValueError: given in coords_cols and coords_defaults."
    ELSE NoError

\* check_overlapping_specifications_add_cols
check_overlapping_specifications_add_cols(coords_cols, add_coords_cols) ==
    LET cols_add == {add_coords_cols[i][2][1] : i \in DOMAIN add_coords_cols}
    IN IF {coords_cols[i][2] : i \in DOMAIN coords_cols} \cap cols_add # {}
       THEN "ValueError: given in coords_cols and add_coords_cols."
       ELSE NoError

\* the checks at the head of a conversion, in order
check_specification(coords_cols, coords_defaults, add_coords_cols) ==
    LET e1 == check_mandatory_dimensions(coords_cols, coords_defaults)
        e2 == check_overlapping_specifications(coords_cols, coords_defaults)
        e3 == IF add_coords_cols # <<>>
              THEN check_overlapping_specifications_add_cols(coords_cols, add_coords_cols)
              ELSE NoError
    IN IF e1 # NoError THEN e1 ELSE IF e2 # NoError THEN e2 ELSE e3

Digits == {"0", "1", "2", "3", "4", "5", "6", "7", "8", "9"}

\* matches_time_format(value, "%Y"): strptime takes exactly four digits for %Y
matches_time_format(value, time_format) ==
    /\ time_format = "%Y"
    /\ Len(value) = 4
    /\ \A i \in DOMAIN value : value[i] \in Digits

\* data[coord] = value: a new column goes last, an existing one is overwritten
SetColumn(df, coord, value) ==
    Frame(IF coord \in Range(df.columns) THEN df.columns ELSE Append(df.columns, coord),
          df.index,
          [i \in DOMAIN df.rows |->
              [c \in DOMAIN df.rows[i] \cup {coord} |->
                  IF c = coord THEN value ELSE df.rows[i][c]]])

\* a bug: every entry becomes a column
RECURSIVE add_dimensions_unchecked(_, _, _)
add_dimensions_unchecked(df, coords_defaults, additional_allowed_coords) ==
    IF coords_defaults = <<>> THEN [raised |-> NoError, data |-> df, named |-> <<>>]
    ELSE add_dimensions_unchecked(SetColumn(df, coords_defaults[1][1], coords_defaults[1][2]),
                                  Tail(coords_defaults), additional_allowed_coords)

\* add_dimensions_from_defaults: the columns added up to the entry that
\* raises, and the name in the message of the error
RECURSIVE add_dimensions_from_defaults(_, _, _)
add_dimensions_from_defaults(df, coords_defaults, additional_allowed_coords) ==
    IF coords_defaults = <<>> THEN [raised |-> NoError, data |-> df, named |-> <<>>]
    ELSE LET coord == coords_defaults[1][1]
             if_columns == Range(INTERCHANGE_FORMAT_OPTIONAL_COLUMNS)
                              \cup Range(INTERCHANGE_FORMAT_MANDATORY_COLUMNS)
                              \cup additional_allowed_coords
         IN IF coord \in if_columns \/ StartsWith(coord, SEC_CATS_PREFIX)
            THEN add_dimensions_from_defaults(SetColumn(df, coord, coords_defaults[1][2]),
                                              Tail(coords_defaults), additional_allowed_coords)
            ELSE [raised |-> "ValueError: given in coords_defaults is unknown", data |-> df,
                  named |-> coord]

\* data.rename(columns=renaming, inplace=True)
rename(df, renaming) ==
    LET New(c) == IF c \in DOMAIN renaming THEN renaming[c] ELSE c
        Old(n) == CHOOSE c \in Range(df.columns) : New(c) = n
    IN Frame([i \in DOMAIN df.columns |-> New(df.columns[i])],
             df.index,
             [i \in DOMAIN df.rows |->
                 [n \in {New(c) : c \in Range(df.columns)} |-> df.rows[i][Old(n)]]])

attr_names == (s_category :> "cat") @@ (s_scenario :> "scen") @@ (s_area :> "area")

\* a bug: sec_cats__ stays in the name
column_name_prefixed(coord, coords_terminologies) ==
    IF coord \in DOMAIN coords_terminologies
    THEN Qualified(coord, coords_terminologies[coord])
    ELSE coord

\* the name a dimension's column gets
column_name(coord, coords_terminologies) ==
    LET name == IF coord \in DOMAIN coords_terminologies
                THEN Qualified(coord, coords_terminologies[coord])
                ELSE coord
    IN IF StartsWith(coord, SEC_CATS_PREFIX) THEN Drop(name, Len(SEC_CATS_PREFIX)) ELSE name

\* the loop of rename_columns over chain(coords_cols, coords_defaults)
RECURSIVE rename_loop(_, _, _, _)
rename_loop(coords, coords_cols, coords_terminologies, acc) ==
    IF coords = <<>> THEN acc
    ELSE LET coord == coords[1]
             name == column_name(coord, coords_terminologies)
             a1 == IF coord \in DOMAIN coords_terminologies /\ coord = s_entity
                   THEN DictPut(acc.attrs, "entity_terminology", coords_terminologies[coord])
                   ELSE acc.attrs
             a2 == IF ~StartsWith(coord, SEC_CATS_PREFIX) /\ coord \in DOMAIN attr_names
                   THEN DictPut(a1, attr_names[coord], name)
                   ELSE a1
             source == IF coord \in ItemKeys(coords_cols) THEN ItemValue(coords_cols, coord)
                       ELSE coord
         IN rename_loop(Tail(coords), coords_cols, coords_terminologies,
                [attrs |-> a2,
                 sec_cats |-> IF StartsWith(coord, SEC_CATS_PREFIX)
                              THEN Append(acc.sec_cats, name) ELSE acc.sec_cats,
                 coord_renaming |-> DictPut(acc.coord_renaming, source, name)])

RECURSIVE rename_add_coords(_, _)
rename_add_coords(add_coords_cols, coord_renaming) ==
    IF add_coords_cols = <<>> THEN coord_renaming
    ELSE rename_add_coords(Tail(add_coords_cols),
             DictPut(coord_renaming, add_coords_cols[1][2][1], add_coords_cols[1][1]))

\* rename_columns: the renamed table and the naming attrs
rename_columns(df, coords_cols, add_coords_cols, coords_defaults, coords_terminologies) ==
    LET chain == [i \in DOMAIN coords_cols |-> coords_cols[i][1]]
                    \o [i \in DOMAIN coords_defaults |-> coords_defaults[i][1]]
        r == rename_loop(chain, coords_cols, coords_terminologies,
                         [attrs |-> EmptyDict, sec_cats |-> <<>>, coord_renaming |-> EmptyDict])
        coord_renaming == rename_add_coords(add_coords_cols, r.coord_renaming)
    IN [data |-> rename(df, coord_renaming),
        attrs |-> IF r.sec_cats # <<>> THEN DictPut(r.attrs, "sec_cats", r.sec_cats)
                  ELSE r.attrs]

\* attrs.update(other)
DictUpdate(d, other) == [k \in DOMAIN d \cup DOMAIN other |-> IF k \in DOMAIN other THEN other[k] ELSE d[k]]

\* a bug: nothing is checked and no terminology is written
additional_coordinate_metadata_unchecked(add_coords_cols, coords_cols, coords_terminologies, acc) ==
    [raised |-> NoError,
     additional_coordinates |->
         [coord \in ItemKeys(add_coords_cols) |-> ItemValue(add_coords_cols, coord)[2]]]

\* additional_coordinate_metadata
RECURSIVE additional_coordinate_metadata(_, _, _, _)
additional_coordinate_metadata(add_coords_cols, coords_cols, coords_terminologies, acc) ==
    IF add_coords_cols = <<>> THEN [raised |-> NoError, additional_coordinates |-> acc]
    ELSE LET coord == add_coords_cols[1][1]
             dim == add_coords_cols[1][2][2]
         IN IF coord \in DOMAIN coords_terminologies
            THEN [raised |-> "ValueError: has terminology definition",
                  additional_coordinates |-> acc]
            ELSE IF dim \notin ItemKeys(coords_cols)
            THEN [raised |-> "ValueError: refers to unknown coordinate",
                  additional_coordinates |-> acc]
            ELSE additional_coordinate_metadata(Tail(add_coords_cols), coords_cols,
                     coords_terminologies,
                     DictPut(acc, coord,
                             IF dim \in DOMAIN coords_terminologies
                             THEN Qualified(dim, coords_terminologies[dim])
                             ELSE dim))

-----------------------------------------------------------------------------
(* map_metadata and fill_from_other_col.  A value mapping is the sequence  *)
(* of its <<column, mapping>> items; a mapping is a dict (the sequence of  *)
(* its <<value, mapped value>> items), the name of a preset, or a callable *)
(* (the sequence of its <<arguments, result>> pairs on the values it is    *)
(* called with).                                                           *)

DictMapping(items) == [kind |-> "dict", v |-> items]
StrMapping(name) == [kind |-> "str", v |-> name]
CallableMapping(graph) == [kind |-> "callable", v |-> graph]

\* func(*vals)
call_func(func, vals) == ItemValue(func, vals)

s_IPC1 == <<"I", "P", "C", "1">>
s_KYOTOGHG == <<"K", "Y", "O", "T", "O", "G", "H", "G">>
s_SARGWP100 == <<"S", "A", "R", "G", "W", "P", "1", "0", "0">>
s_Gg_CO2_yr == s_Gg \o <<" ">> \o s_CO2 \o <<" ", "/", " ", "y", "r">>

\* _conversion.py
convert_ipcc_code_primap_to_primap2 == << << <<s_IPC1>>, <<"1">> >> >>
convert_entity_gwp_primap_to_primap2 ==
    << << <<s_KYOTOGHG>>, Qualified(s_KYOTOGHG, s_SARGWP100) >>, << <<s_CO2>>, s_CO2 >> >>
convert_unit_primap_to_primap2 ==
    << << <<s_Gg, s_CO2>>, s_Gg_CO2_yr >>,
       << <<s_Gg, s_CH4>>, s_Gg \o <<" ">> \o s_CH4 \o <<" ", "/", " ", "y", "r">> >>,
       << <<s_Gg, s_KYOTOGHG>>, s_Gg \o <<" ">> \o s_KYOTOGHG \o <<" ", "/", " ", "y", "r">> >>,
       << <<s_Gg, Qualified(s_KYOTOGHG, s_SARGWP100)>>,
          s_Gg \o <<" ">> \o s_CO2 \o <<"e", "q", " ", "/", " ", "y", "r">> >>,
       << <<s_Gg_CO2_yr, s_CO2>>, s_Gg_CO2_yr \o <<" ", "/", " ", "y", "r">> >> >>

\* mapping_functions of map_metadata_unordered, for the entity column given
mapping_functions(entity_col) ==
    ("PRIMAP1" :>
        ((s_category :> [func |-> convert_ipcc_code_primap_to_primap2, args |-> <<>>])
         @@ (s_entity :> [func |-> convert_entity_gwp_primap_to_primap2, args |-> <<>>])
         @@ (s_unit :> [func |-> convert_unit_primap_to_primap2, args |-> <<entity_col>>])))

\* a < b on tuples of str
TupleLess(a, b) ==
    \E k \in DOMAIN a :
        /\ \A i \in 1 .. (k - 1) : a[i] = b[i]
        /\ StrLess(a[k], b[k])

\* np.unique(records): the distinct records, ascending
RECURSIVE np_unique(_)
np_unique(S) ==
    IF S = {} THEN <<>>
    ELSE LET least == CHOOSE x \in S : \A y \in S : x = y \/ TupleLess(x, y)
         IN <<least>> \o np_unique(S \ {least})

\* data.loc[selector, col_name] = value
SetWhere(df, Selector(_), col_name, value) ==
    Frame(df.columns, df.index,
          [i \in DOMAIN df.rows |->
              IF Selector(df.rows[i])
              THEN [c \in DOMAIN df.rows[i] |-> IF c = col_name THEN value ELSE df.rows[i][c]]
              ELSE df.rows[i]])

\* the loop over values_to_map for a function with additional arguments: the
\* selector of each record is taken on the table as it then is
RECURSIVE map_with_args(_, _, _, _, _)
map_with_args(df, col_name, args, func, values_to_map) ==
    IF values_to_map = <<>> THEN df
    ELSE LET vals == values_to_map[1]
             Selector(row) ==
                 /\ row[col_name] = vals[1]
                 /\ \A i \in DOMAIN args : row[args[i]] = vals[i + 1]
         IN map_with_args(SetWhere(df, Selector, col_name, call_func(func, vals)),
                          col_name, args, func, Tail(values_to_map))

\* dict(zip(values_to_map, map(func, values_to_map)))
zip_mapped(values_to_map, func) ==
    [i \in DOMAIN values_to_map |-> <<values_to_map[i], call_func(func, <<values_to_map[i]>>)>>]

\* data.replace(meta_mapping_df, inplace=True): in each column named, every
\* value that is a key of the column's dict is replaced by what the dict holds
replace(df, meta_mapping_df) ==
    Frame(df.columns, df.index,
          [i \in DOMAIN df.rows |->
              [c \in DOMAIN df.rows[i] |->
                  IF c \in DOMAIN meta_mapping_df /\ df.rows[i][c] \in ItemKeys(meta_mapping_df[c])
                  THEN ItemValue(meta_mapping_df[c], df.rows[i][c])
                  ELSE df.rows[i][c]]])

\* the loop of map_metadata_unordered over meta_mapping.items()
RECURSIVE map_metadata_loop(_, _, _, _)
map_metadata_loop(df, meta_mapping, dim_aliases, meta_mapping_df) ==
    IF meta_mapping = <<>> THEN [raised |-> NoError, data |-> replace(df, meta_mapping_df)]
    ELSE LET column == meta_mapping[1][1]
             mapping == meta_mapping[1][2]
             col_name == DictGet(dim_aliases, column, column)
             functions == mapping_functions(DictGet(dim_aliases, s_entity, s_entity))
             known == mapping.kind = "callable"
                         \/ (mapping.v \in DOMAIN functions
                             /\ column \in DOMAIN functions[mapping.v])
             func == IF mapping.kind = "str" THEN functions[mapping.v][column].func ELSE mapping.v
             args == IF mapping.kind = "str" THEN functions[mapping.v][column].args ELSE <<>>
         IN IF mapping.kind = "dict"
            THEN map_metadata_loop(df, Tail(meta_mapping), dim_aliases,
                                   DictPut(meta_mapping_df, col_name, mapping.v))
            ELSE IF ~known
            THEN [raised |-> "ValueError: Unknown metadata mapping", data |-> df]
            ELSE IF \E c \in {col_name} \cup Range(args) : c \notin Range(df.columns)
            THEN [raised |-> "KeyError", data |-> df]
            ELSE IF args = <<>>
            THEN map_metadata_loop(df, Tail(meta_mapping), dim_aliases,
                     DictPut(meta_mapping_df, col_name,
                             zip_mapped(unique(Column(df, col_name)), func)))
            ELSE map_metadata_loop(
                     map_with_args(df, col_name, args, func,
                         np_unique({<<df.rows[i][col_name]>>
                                        \o [k \in DOMAIN args |-> df.rows[i][args[k]]] :
                                    i \in DOMAIN df.rows})),
                     Tail(meta_mapping), dim_aliases, meta_mapping_df)

\* map_metadata_unordered
map_metadata_unordered(df, meta_mapping, at) ==
    map_metadata_loop(df, meta_mapping, translations_from_attrs(at, TRUE), EmptyDict)

\* meta_mapping.pop(key)
Pop(m, key) == SelectPositions(m, LAMBDA i : m[i][1] # key, 1)

\* a bug: the entity entry is put back once it has been applied
pop_restored(meta_mapping) == meta_mapping

\* the dict the caller passed as meta_mapping, after map_metadata
pop_entity(meta_mapping) == Pop(meta_mapping, s_entity)

\* a bug: entity is mapped along with the other columns
map_metadata_at_once(df, meta_mapping, at) ==
    LET r == map_metadata_unordered(df, meta_mapping, at)
    IN [raised |-> r.raised, data |-> r.data, meta_mapping |-> meta_mapping]

\* map_metadata: the table, and meta_mapping as the call leaves it
map_metadata(df, meta_mapping, at) ==
    IF s_entity \in ItemKeys(meta_mapping)
    THEN LET meta_mapping_entity == << <<s_entity, ItemValue(meta_mapping, s_entity)>> >>
             rest == pop_entity(meta_mapping)
             first == map_metadata_unordered(df, meta_mapping_entity, at)
         IN IF first.raised # NoError
            THEN [raised |-> first.raised, data |-> first.data, meta_mapping |-> rest]
            ELSE LET r == map_metadata_unordered(first.data, rest, at)
                 IN [raised |-> r.raised, data |-> r.data, meta_mapping |-> rest]
    ELSE LET r == map_metadata_unordered(df, meta_mapping, at)
         IN [raised |-> r.raised, data |-> r.data, meta_mapping |-> meta_mapping]

\* the filling that stops after the first case of a source column
fill_first_case(df, target_col_name, source_col_name, mapping_info) ==
    IF mapping_info = <<>> THEN df
    ELSE SetWhere(df, LAMBDA row : row[source_col_name] = mapping_info[1][1],
                  target_col_name, mapping_info[1][2])

\* the innermost loop of fill_from_other_col, over the cases of mapping_info
RECURSIVE fill_cases(_, _, _, _)
fill_cases(df, target_col_name, source_col_name, mapping_info) ==
    IF mapping_info = <<>> THEN df
    ELSE LET Selector(row) == row[source_col_name] = mapping_info[1][1]
         IN fill_cases(SetWhere(df, Selector, target_col_name, mapping_info[1][2]),
                       target_col_name, source_col_name, Tail(mapping_info))

\* the loop over the source columns of one target column
RECURSIVE fill_sources(_, _, _, _)
fill_sources(df, target_col, target_info, dim_aliases) ==
    IF target_info = <<>> THEN df
    ELSE fill_sources(fill_cases(df, DictGet(dim_aliases, target_col, target_col),
                                 DictGet(dim_aliases, target_info[1][1], target_info[1][1]),
                                 target_info[1][2]),
                      target_col, Tail(target_info), dim_aliases)

RECURSIVE fill_targets(_, _, _)
fill_targets(df, coords_value_filling, dim_aliases) ==
    IF coords_value_filling = <<>> THEN df
    ELSE fill_targets(fill_sources(df, coords_value_filling[1][1], coords_value_filling[1][2],
                                   dim_aliases),
                      Tail(coords_value_filling), dim_aliases)

\* fill_from_other_col
fill_from_other_col(df, coords_value_filling, at) ==
    fill_targets(df, coords_value_filling, translations_from_attrs(at, TRUE))

-----------------------------------------------------------------------------
(* sort_columns_and_rows                                                   *)

\* the test of the inner loop: ocol == col or ocol.startswith(f"{col} (")
matches_column(ocol, col) == ocol = col \/ StartsWith(ocol, col \o s_paren)

Remove(s, x) == SelectPositions(s, LAMBDA i : s[i] # x, 1)

\* the loop over INTERCHANGE_FORMAT_COLUMN_ORDER: the first column of
\* other_cols that matches is moved to cols_sorted
RECURSIVE sort_columns_loop(_, _, _)
sort_columns_loop(order, other_cols, cols_sorted) ==
    IF order = <<>> THEN [cols_sorted |-> cols_sorted, other_cols |-> other_cols]
    ELSE LET hits == {i \in DOMAIN other_cols : matches_column(other_cols[i], order[1])}
         IN IF hits = {} THEN sort_columns_loop(Tail(order), other_cols, cols_sorted)
            ELSE sort_columns_loop(Tail(order), Remove(other_cols, other_cols[Min(hits)]),
                                   Append(cols_sorted, other_cols[Min(hits)]))

\* a bug: the columns left over are appended in the order they came in
leftover_unsorted(other_cols) == other_cols

\* list(sorted(other_cols))
leftover_sorted(other_cols) == sorted(Range(other_cols))

\* cols_sorted of sort_columns_and_rows
sort_columns(dimensions) ==
    LET r == sort_columns_loop(INTERCHANGE_FORMAT_COLUMN_ORDER, dimensions, <<>>)
    IN r.cols_sorted \o leftover_sorted(r.other_cols)

\* a bug: the rows in descending order
RowGreater(a, b, by) ==
    \E k \in DOMAIN by :
        /\ \A i \in 1 .. (k - 1) : a[by[i]] = b[by[i]]
        /\ StrLess(b[by[k]], a[by[k]])

\* row a sorts before row b by the columns of by
RowLess(a, b, by) ==
    \E k \in DOMAIN by :
        /\ \A i \in 1 .. (k - 1) : a[by[i]] = b[by[i]]
        /\ StrLess(a[by[k]], b[by[k]])

\* a bug: of the rows that agree on by, the later comes first
tie_reversed(i, j) == i > j

\* of the rows at i and j that agree on by, the one at i comes first
tie_order(i, j) == i < j

\* data.sort_values(by=by): rows that agree on by keep their order
RECURSIVE sort_positions(_, _, _)
sort_positions(rows, by, left) ==
    IF left = {} THEN <<>>
    ELSE LET first == CHOOSE i \in left :
                 \A j \in left : j = i \/ RowLess(rows[i], rows[j], by)
                                  \/ (~RowLess(rows[j], rows[i], by) /\ tie_order(i, j))
         IN <<first>> \o sort_positions(rows, by, left \ {first})

sort_values(df, by) ==
    LET order == sort_positions(df.rows, by, DOMAIN df.rows)
    IN Frame(df.columns, [i \in DOMAIN order |-> df.index[order[i]]],
             [i \in DOMAIN order |-> df.rows[order[i]]])

\* data[columns]
SelectColumns(df, columns) ==
    Frame(columns, df.index,
          [i \in DOMAIN df.rows |-> [c \in Range(columns) |-> df.rows[i][c]]])

\* sort_columns_and_rows(data, dimensions): the sorted table and cols_sorted
sort_columns_and_rows(df, dimensions) ==
    LET time_cols == Range(df.columns) \ Range(dimensions)
        cols_sorted == sort_columns(dimensions)
        selected == SelectColumns(df, cols_sorted \o sorted(time_cols))
    IN [data |-> reset_index(sort_values(selected, cols_sorted)), dimensions |-> cols_sorted]

\* the orders list(set(...)) can give the dimensions in, as far as the result
\* depends on them: the columns matching one name of the column order in
\* either order
ListOrders(S) ==
    LET up == sorted(S)
    IN {up, [i \in DOMAIN up |-> up[Len(up) + 1 - i]]}

\* dims = coords.copy(); dims.remove(add_coord) for every auxiliary coordinate
RECURSIVE remove_add_coords(_, _)
remove_add_coords(dimensions, add_coords_cols) ==
    IF add_coords_cols = <<>> THEN dimensions
    ELSE remove_add_coords(Remove(dimensions, add_coords_cols[1][1]), Tail(add_coords_cols))

\* interchange_format_attrs_dict
interchange_format_attrs_dict(xr_attrs, time_format, dimensions, additional_coordinates) ==
    LET metadata == ("attrs" :> xr_attrs) @@ ("time_format" :> time_format)
                       @@ ("dimensions" :> ("*" :> dimensions))
    IN IF additional_coordinates # EmptyDict
       THEN metadata @@ ("additional_coordinates" :> additional_coordinates)
       ELSE metadata

-----------------------------------------------------------------------------
(* Timestamps and long_to_wide.  A timestamp is the token "datetime"       *)
(* followed by the characters of its ISO date, so it is told from a str by *)
(* its first element; the model knows the time format "%Y".                *)

s_time == <<"t", "i", "m", "e">>
s_data == <<"d", "a", "t", "a">>

\* a missing value
NaN == [nan |-> TRUE]

is_datetime(value) == Len(value) > 0 /\ value[1] = "datetime"

\* pd.to_datetime(value, format=time_format) for one value can be done
can_parse(value, time_format) ==
    \/ is_datetime(value)
    \/ matches_time_format(value, time_format)

\* pd.to_datetime(value, format=time_format) for one value
to_datetime(value, time_format) ==
    IF is_datetime(value) THEN value
    ELSE <<"datetime">> \o value \o <<"-", "0", "1", "-", "0", "1">>

\* timestamp.strftime("%Y")
strftime(timestamp, time_format) == SubSeq(timestamp, 2, 5)

\* df[col] = df[col].map(F)
MapColumn(df, col, F(_)) ==
    Frame(df.columns, df.index,
          [i \in DOMAIN df.rows |->
              [c \in DOMAIN df.rows[i] |-> IF c = col THEN F(df.rows[i][c]) ELSE df.rows[i][c]]])

\* the values of a row in the columns of cols, in their order
Tuple(row, cols) == [k \in DOMAIN cols |-> row[cols[k]]]

\* long_to_wide, for the order all_coords that list(set(...)) gives the
\* columns other than data and time: the pivoted table and its dimensions,
\* and data_long as the call leaves it
long_to_wide(data_long, time_format, all_coords) ==
    LET Format(t) == strftime(t, time_format)
        formatted == MapColumn(data_long, s_time, Format)
        coords == Remove(all_coords, s_unit)
        rows == formatted.rows
        combos == np_unique({Tuple(rows[i], coords) : i \in DOMAIN rows})
        times == sorted({rows[i][s_time] : i \in DOMAIN rows})
        Cell(combo, t) ==
            LET hits == {i \in DOMAIN rows : Tuple(rows[i], coords) = combo /\ rows[i][s_time] = t}
            IN IF hits = {} THEN NaN ELSE rows[CHOOSE i \in hits : TRUE][s_data]
        UnitOf(combo) ==
            rows[CHOOSE i \in DOMAIN rows : Tuple(rows[i], coords) = combo][s_unit]
        wide_rows ==
            [k \in DOMAIN combos |->
                [c \in Range(coords) \cup Range(times) \cup {s_unit} |->
                    IF c = s_unit THEN UnitOf(combos[k])
                    ELSE IF c \in Range(times) THEN Cell(combos[k], c)
                    ELSE combos[k][CHOOSE j \in DOMAIN coords : coords[j] = c]]]
    IN IF s_unit \notin Range(all_coords)
       THEN [raised |-> "ValueError: list.remove(x): x not in list", data_long |-> formatted,
             data |-> formatted, coords |-> all_coords]
       ELSE IF \E i, j \in DOMAIN rows :
                   /\ i # j
                   /\ Tuple(rows[i], coords) = Tuple(rows[j], coords)
                   /\ rows[i][s_time] = rows[j][s_time]
       THEN [raised |-> "ValueError: Index contains duplicate entries, cannot reshape",
             data_long |-> formatted, data |-> formatted, coords |-> all_coords]
       ELSE IF \E i, j \in DOMAIN rows :
                   /\ Tuple(rows[i], coords) = Tuple(rows[j], coords)
                   /\ rows[i][s_unit] # rows[j][s_unit]
       THEN [raised |-> "ValueError: cannot reindex on an axis with duplicate labels",
             data_long |-> formatted, data |-> formatted, coords |-> all_coords]
       ELSE [raised |-> NoError, data_long |-> formatted,
             data |-> Frame(coords \o times \o <<s_unit>>, RangeIndex(Len(combos)), wide_rows),
             coords |-> Append(coords, s_unit)]

-----------------------------------------------------------------------------
(* convert_wide_dataframe_if, stage by stage.                              *)

s_country == <<"c", "o", "u", "n", "t", "r", "y">>
s_type == <<"t", "y", "p", "e">>
s_name == <<"n", "a", "m", "e">>
s_category_name == s_category \o <<"_">> \o s_name
s_sec_type == SEC_CATS_PREFIX \o s_type
s_IPCC2006 == <<"I", "P", "C", "C", "2", "0", "0", "6">>
s_1 == <<"1">>
s_Energy == <<"E", "n", "e", "r", "g", "y">>
s_fugitive == <<"f", "u", "g", "i", "t", "i", "v", "e">>

\* the columns of the tables given, in the order they are given
WideColumns == <<s_2020, s_country, s_category, s_gas, s_unit, s_type, s_name, s_2019>>

WideRows ==
    {(s_2020 :> Num(25, 0)) @@ (s_country :> a) @@ (s_category :> s_1) @@ (s_gas :> s_CO2)
        @@ (s_unit :> u) @@ (s_type :> s_fugitive) @@ (s_name :> s_Energy)
        @@ (s_2019 :> Num(1, 3)) :
        <<a, u>> \in {<<s_USA, s_Gg>>, <<s_DEU, s_Gg>>, <<s_USA, s_Mg>>}}

WideTables == {Frame(WideColumns, RangeIndex(Len(rows)), rows) : rows \in SeqsUpTo(WideRows, MaxWideRows)}

\* where a specification names the area: "cols", "defaults", "both" or "nowhere"
WideCoordsCols(area, sec) ==
    (IF area \in {"cols", "both"} THEN << <<s_area, s_country>> >> ELSE <<>>)
        \o << <<s_category, s_category>>, <<s_entity, s_gas>>, <<s_unit, s_unit>> >>
        \o (IF sec THEN << <<s_sec_type, s_type>> >> ELSE <<>>)

WideCoordsDefaults(area, scen) ==
    (IF area \in {"defaults", "both"} THEN << <<s_area, s_USA>> >> ELSE <<>>)
        \o (IF scen THEN << <<s_scenario, s_HISTORY>> >> ELSE <<>>)

WideTerminologies ==
    {[k \in K |-> CASE k = s_area -> s_ISO3
                    [] k = s_category -> s_IPCC2006
                    [] OTHER -> s_T] :
        K \in SUBSET {s_area, s_category, s_entity, s_sec_type}}

WideAddCoordsCols == {<<>>, << <<s_category_name, <<s_name, s_category>>>> >>}

WideFilters == {<<>>, << << <<s_country, ListCond(<<s_USA>>)>> >> >>}

\* the arguments of a call.  An optional argument that the caller leaves
\* out (None) is named in omitted and holds the empty value the code puts in
\* its place where it does so; code that uses the argument without doing so
\* is modelled by what it does with None.
WideOmitted == {"coords_value_mapping", "coords_value_filling", "time_cols"}

WideParams ==
    {[entry |-> "convert_wide_dataframe_if",
      coords_cols |-> WideCoordsCols(area, sec),
      coords_defaults |-> WideCoordsDefaults(area, scen),
      coords_terminologies |-> terms,
      add_coords_cols |-> add,
      filter_keep |-> keep,
      filter_remove |-> <<>>,
      coords_value_mapping |-> <<>>,
      coords_value_filling |-> <<>>,
      time_cols |-> <<>>,
      time_format |-> "%Y",
      meta_data |-> ("title" :> s_T),
      omitted |-> WideOmitted] :
        area \in {"cols", "defaults", "both", "nowhere"}, sec \in BOOLEAN, scen \in BOOLEAN,
        terms \in WideTerminologies, add \in WideAddCoordsCols, keep \in WideFilters}

s_foo == <<"f", "o", "o">>
s_sec_class == SEC_CATS_PREFIX \o <<"c", "l", "a", "s", "s">>
s_2 == <<"2">>

WideBase ==
    [entry |-> "convert_wide_dataframe_if",
     coords_cols |-> WideCoordsCols("cols", TRUE),
     coords_defaults |-> WideCoordsDefaults("cols", TRUE),
     coords_terminologies |-> (s_area :> s_ISO3),
     add_coords_cols |-> << <<s_category_name, <<s_name, s_category>>>> >>,
     filter_keep |-> << << <<s_country, ListCond(<<s_USA>>)>> >> >>,
     filter_remove |-> <<>>,
     coords_value_mapping |-> <<>>,
     coords_value_filling |-> <<>>,
     time_cols |-> <<>>,
     time_format |-> "%Y",
     meta_data |-> ("title" :> s_T),
     omitted |-> WideOmitted]

\* specifications with an error that the checks at the head do not look for,
\* with arguments left out, and with value mappings and fillings
Variants(base) ==
    {[base EXCEPT !.coords_defaults = @ \o << <<s_foo, s_T>> >>],
     [base EXCEPT !.coords_terminologies = @ @@ (s_category_name :> s_T)],
     [base EXCEPT !.add_coords_cols = << <<s_category_name, <<s_name, s_scenario>>>> >>],
     [base EXCEPT !.coords_terminologies = @ @@ (s_foo :> s_T)],
     [base EXCEPT !.coords_defaults = @ \o << <<s_sec_class, s_T>> >>],
     [base EXCEPT !.coords_defaults = <<>>, !.add_coords_cols = <<>>, !.filter_keep = <<>>,
                  !.meta_data = EmptyDict,
                  !.omitted = @ \cup {"coords_defaults", "add_coords_cols", "filter_keep",
                                      "filter_remove", "meta_data"}],
     [base EXCEPT !.coords_defaults = <<>>],
     [base EXCEPT !.coords_value_mapping =
                      << <<s_area, DictMapping(<< <<s_DEU, s_USA>> >>)>>,
                         <<s_entity, DictMapping(<< <<s_CO2, s_CH4>> >>)>> >>,
                  !.omitted = @ \ {"coords_value_mapping"}],
     [base EXCEPT !.coords_value_mapping = << <<s_category, StrMapping("FOO")>> >>,
                  !.omitted = @ \ {"coords_value_mapping"}],
     [base EXCEPT !.coords_value_filling =
                      << <<s_category, << <<s_area, << <<s_DEU, s_2>>, <<s_USA, s_2>> >> >> >> >> >>,
                  !.omitted = @ \ {"coords_value_filling"}]}

WideMoreParams ==
    Variants(WideBase)
        \cup {[WideBase EXCEPT !.time_cols = <<s_2020, s_2019>>, !.omitted = @ \ {"time_cols"}]}

Layout(p) ==
    IF p.entry \in {"convert_long_dataframe_if", "read_long_csv_file_if"} THEN "long" ELSE "wide"

\* the results of a call as they come about; caller is the table the caller
\* passed as it now is, aliased says that data is that very object; meta_data
\* is the dict the caller passed as it now is, attrs_aliased says that attrs
\* is that very object
NoResult ==
    [raised |-> NoError, attrs |-> EmptyDict, time_columns |-> <<>>,
     additional_coordinates |-> EmptyDict, coords |-> <<>>, if_attrs |-> EmptyDict,
     caller |-> <<>>, aliased |-> FALSE, csv_read |-> FALSE, calls |-> 1, first |-> <<>>,
     meta_data |-> EmptyDict, attrs_aliased |-> FALSE]

\* the results when data has been altered in place to df
InPlace(r, df) == IF r.aliased THEN [r EXCEPT !.caller = df] ELSE r

WideInit ==
    /\ AliasIdle
    /\ pc = "convert_wide_dataframe_if"
    /\ params \in WideParams \cup WideMoreParams
    /\ data_in \in WideTables
    /\ data = data_in
    /\ res = [NoResult EXCEPT !.caller = data_in]

\* a bug: attrs is the dict of the caller
meta_data_shared(r) == [r EXCEPT !.attrs = r.meta_data, !.attrs_aliased = TRUE]

\* attrs = meta_data.copy(): what is put into attrs leaves meta_data alone
meta_data_copy(r) == [r EXCEPT !.attrs = r.meta_data, !.attrs_aliased = FALSE]

\* attrs.update(naming_attrs)
attrs_update(r, naming_attrs) ==
    [r EXCEPT !.attrs = DictUpdate(r.attrs, naming_attrs),
              !.meta_data = IF r.attrs_aliased THEN DictUpdate(r.attrs, naming_attrs) ELSE @]

Raise(message) ==
    /\ pc' = "raised"
    /\ res' = [res EXCEPT !.raised = message]
    /\ UNCHANGED <<params, data_in, data>>
    /\ UNCHANGED aliasVars

\* convert_wide_dataframe_if lines 570-582, convert_long_dataframe_if lines
\* 180-192: the arguments are prepared and checked
CheckArguments ==
    /\ pc \in {"convert_wide_dataframe_if", "convert_long_dataframe_if"}
    /\ LET raised == check_specification(params.coords_cols, params.coords_defaults,
                                         params.add_coords_cols)
       IN IF raised # NoError THEN Raise(raised)
          ELSE /\ pc' = "filter_data"
               /\ res' = IF "meta_data" \in params.omitted
                         THEN [res EXCEPT !.attrs = EmptyDict]
                         ELSE meta_data_copy([res EXCEPT !.meta_data = params.meta_data])
               /\ UNCHANGED <<params, data_in, data>>
               /\ UNCHANGED aliasVars

\* a bug: the table is filtered without being copied first
copy_shared(r, df) == [r EXCEPT !.caller = df, !.aliased = TRUE]

\* data_if = data_wide.copy(): what becomes of data_if leaves data_wide alone
copy(r, df) == [r EXCEPT !.aliased = FALSE]

\* the columns the queries of a filter name
filter_columns(filter) ==
    UNION {{filter[i][j][1] : j \in DOMAIN filter[i]} : i \in DOMAIN filter}

\* DataFrame.query of a column the table does not have
undefined_variable(df, filter_keep, filter_remove) ==
    (filter_columns(filter_keep) \cup filter_columns(filter_remove)) \ Range(df.columns) # {}

\* lines 585-596: the time columns are found, the table is copied and filtered
FilterCopy ==
    /\ pc = "filter_data"
    /\ Layout(params) = "wide"
    /\ IF undefined_variable(data, params.filter_keep, params.filter_remove)
       THEN Raise("UndefinedVariableError: name is not defined")
       ELSE
       LET filtered == filter_data(data, params.filter_keep, params.filter_remove)
           time_columns ==
               IF params.entry = "read_wide_csv_file_if" THEN res.time_columns
               ELSE IF "time_cols" \in params.omitted
               THEN SelectPositions(data.columns,
                        LAMBDA i : matches_time_format(data.columns[i], params.time_format), 1)
               ELSE params.time_cols
       IN /\ res' = [copy(res, filtered) EXCEPT !.time_columns = time_columns]
          /\ data' = filtered
          /\ pc' = "add_dimensions_from_defaults"
          /\ UNCHANGED <<params, data_in>>
          /\ UNCHANGED aliasVars

\* convert_long_dataframe_if line 194: data_long is filtered as it is
FilterInPlace ==
    /\ pc = "filter_data"
    /\ Layout(params) = "long"
    /\ IF undefined_variable(data, params.filter_keep, params.filter_remove)
       THEN Raise("UndefinedVariableError: name is not defined")
       ELSE /\ data' = filter_data(data, params.filter_keep, params.filter_remove)
            /\ res' = InPlace(res, data')
            /\ pc' = "add_dimensions_from_defaults"
            /\ UNCHANGED <<params, data_in>>
            /\ UNCHANGED aliasVars

\* line 598, and lines 196-198 with "time" allowed
AddDimensionsFromDefaults ==
    /\ pc = "add_dimensions_from_defaults"
    /\ LET r == add_dimensions_from_defaults(data, params.coords_defaults,
                    IF Layout(params) = "long" THEN {s_time} ELSE {})
       IN /\ data' = r.data
          /\ pc' = IF r.raised # NoError THEN "raised" ELSE "rename_columns"
          /\ res' = [InPlace(res, r.data) EXCEPT !.raised = r.raised]
    /\ UNCHANGED <<params, data_in>>
    /\ UNCHANGED aliasVars

\* lines 600-603 and 200-204
RenameColumns ==
    /\ pc = "rename_columns"
    /\ LET r == rename_columns(data, params.coords_cols, params.add_coords_cols,
                               params.coords_defaults, params.coords_terminologies)
       IN /\ data' = r.data
          /\ res' = attrs_update(InPlace(res, r.data), r.attrs)
    /\ pc' = "additional_coordinate_metadata"
    /\ UNCHANGED <<params, data_in>>
    /\ UNCHANGED aliasVars

\* lines 605-607 and 206-208
AdditionalCoordinateMetadata ==
    /\ pc = "additional_coordinate_metadata"
    /\ LET r == additional_coordinate_metadata(params.add_coords_cols, params.coords_cols,
                                               params.coords_terminologies, EmptyDict)
       IN /\ pc' = IF r.raised # NoError THEN "raised" ELSE "map_metadata"
          /\ res' = [res EXCEPT !.raised = r.raised,
                                !.additional_coordinates = r.additional_coordinates]
    /\ UNCHANGED <<params, data_in, data>>
    /\ UNCHANGED aliasVars

\* lines 609-610 and 210-211: map_metadata works on the table and on the
\* dict that the caller passed as coords_value_mapping
MapMetadata ==
    /\ pc = "map_metadata"
    /\ IF "coords_value_mapping" \in params.omitted
       THEN /\ pc' = "fill_from_other_col"
            /\ UNCHANGED <<params, data, res>>
       ELSE LET r == map_metadata(data, params.coords_value_mapping, res.attrs)
            IN /\ data' = r.data
               /\ params' = [params EXCEPT !.coords_value_mapping = r.meta_mapping]
               /\ pc' = IF r.raised # NoError THEN "raised" ELSE "fill_from_other_col"
               /\ res' = [InPlace(res, r.data) EXCEPT !.raised = r.raised]
    /\ UNCHANGED data_in
    /\ UNCHANGED aliasVars

\* lines 612-615 and 213-216
FillFromOtherCol ==
    /\ pc = "fill_from_other_col"
    /\ IF "coords_value_filling" \in params.omitted
       THEN UNCHANGED <<data, res>>
       ELSE /\ data' = fill_from_other_col(data, params.coords_value_filling, res.attrs)
            /\ res' = InPlace(res, data')
    /\ pc' = "coords"
    /\ UNCHANGED <<params, data_in>>
    /\ UNCHANGED aliasVars

\* lines 617-619: coords = list(set(...)) comes in an order the code does not fix
HarmonizeCoords ==
    /\ pc = "coords"
    /\ Layout(params) = "wide"
    /\ \E coords \in ListOrders(Range(data.columns) \ Range(res.time_columns)) :
          LET r == harmonize_units(data, res.attrs, coords)
          IN /\ data' = r.data
             /\ pc' = IF r.raised # NoError THEN "raised" ELSE "sort_columns_and_rows"
             /\ res' = [InPlace(res, r.data) EXCEPT !.raised = r.raised, !.coords = coords]
    /\ UNCHANGED <<params, data_in>>
    /\ UNCHANGED aliasVars

\* convert_long_dataframe_if lines 218-222: the units are harmonized and the
\* time column is parsed
HarmonizeParse ==
    /\ pc = "coords"
    /\ Layout(params) = "long"
    /\ LET coords == sorted(Range(data.columns) \ {s_data})
           r == harmonize_units(data, res.attrs, coords)
           Parse(value) == to_datetime(value, params.time_format)
       IN IF r.raised # NoError
          THEN /\ data' = r.data
               /\ pc' = "raised"
               /\ res' = [InPlace(res, r.data) EXCEPT !.raised = r.raised]
          ELSE IF \E i \in DOMAIN r.data.rows :
                      ~can_parse(r.data.rows[i][s_time], params.time_format)
          THEN /\ data' = r.data
               /\ pc' = "raised"
               /\ res' = [InPlace(res, r.data) EXCEPT
                             !.raised = "ValueError: time data does not match format"]
          ELSE /\ data' = MapColumn(r.data, s_time, Parse)
               /\ pc' = "long_to_wide"
               /\ res' = InPlace(res, data')
    /\ UNCHANGED <<params, data_in>>
    /\ UNCHANGED aliasVars

\* convert_long_dataframe_if line 224: long_to_wide formats the time column
\* of data_long and returns a new table
LongToWide ==
    /\ pc = "long_to_wide"
    /\ \E all_coords \in ListOrders(Range(data.columns) \ {s_data, s_time}) :
          LET r == long_to_wide(data, params.time_format, all_coords)
          IN /\ data' = r.data
             /\ pc' = IF r.raised # NoError THEN "raised" ELSE "sort_columns_and_rows"
             /\ res' = [InPlace(res, r.data_long) EXCEPT
                           !.raised = r.raised, !.coords = r.coords, !.aliased = FALSE]
    /\ UNCHANGED <<params, data_in>>
    /\ UNCHANGED aliasVars

\* lines 621 and 226
SortColumnsAndRows ==
    /\ pc = "sort_columns_and_rows"
    /\ LET r == sort_columns_and_rows(data, res.coords)
       IN /\ data' = r.data
          /\ res' = [res EXCEPT !.coords = r.dimensions]
    /\ pc' = "interchange_format_attrs_dict"
    /\ UNCHANGED <<params, data_in>>
    /\ UNCHANGED aliasVars

\* lines 622-633 and 227-238
AttachAttrs ==
    /\ pc = "interchange_format_attrs_dict"
    /\ IF ItemKeys(params.add_coords_cols) \ Range(res.coords) # {}
       THEN /\ pc' = "raised"
            /\ res' = [res EXCEPT !.raised = "ValueError: list.remove(x): x not in list"]
       ELSE /\ pc' = "returned"
            /\ res' = [res EXCEPT !.if_attrs =
                          interchange_format_attrs_dict(res.attrs, params.time_format,
                              remove_add_coords(res.coords, params.add_coords_cols),
                              res.additional_coordinates)]
    /\ UNCHANGED <<params, data_in, data>>
    /\ UNCHANGED aliasVars

WideNext ==
    \/ CheckArguments
    \/ FilterCopy
    \/ AddDimensionsFromDefaults
    \/ RenameColumns
    \/ AdditionalCoordinateMetadata
    \/ MapMetadata
    \/ FillFromOtherCol
    \/ HarmonizeCoords
    \/ SortColumnsAndRows
    \/ AttachAttrs

SpecWide == WideInit /\ [][WideNext]_vars

-----------------------------------------------------------------------------
(* The four entry points: read_wide_csv_file_if and read_long_csv_file_if  *)
(* check the specification, read the file and call the conversion of the   *)
(* table read.  A CSV file is the table pd.read_csv makes of it.           *)

s_year == <<"y", "e", "a", "r">>
s_value == <<"v", "a", "l", "u", "e">>

LongColumns == <<s_value, s_country, s_category, s_gas, s_unit, s_name, s_year>>

LongRows ==
    {(s_value :> Num(1, 3)) @@ (s_country :> r[1]) @@ (s_category :> s_1) @@ (s_gas :> s_CO2)
        @@ (s_unit :> r[2]) @@ (s_name :> s_Energy) @@ (s_year :> r[3]) :
        r \in {<<s_USA, s_Gg, s_2019>>, <<s_USA, s_Mg, s_2020>>,
               <<s_DEU, s_Gg, s_2019>>, <<s_DEU, s_Gg, s_2020>>}}

LongTables == {Frame(LongColumns, RangeIndex(Len(rows)), rows) : rows \in SeqsUpTo(LongRows, MaxLongRows)}

LongCoordsCols(area) ==
    (IF area \in {"cols", "both"} THEN << <<s_area, s_country>> >> ELSE <<>>)
        \o << <<s_category, s_category>>, <<s_entity, s_gas>>, <<s_unit, s_unit>>,
              <<s_time, s_year>>, <<s_data, s_value>> >>

Entries ==
    {"convert_wide_dataframe_if", "read_wide_csv_file_if",
     "convert_long_dataframe_if", "read_long_csv_file_if"}

\* the arguments of a call of entry with nothing wrong
EntryBase(entry) ==
    [WideBase EXCEPT
        !.entry = entry,
        !.coords_cols = IF entry \in {"convert_long_dataframe_if", "read_long_csv_file_if"}
                        THEN LongCoordsCols("cols") ELSE WideCoordsCols("cols", TRUE)]

\* auxiliary coordinates: none, one of its own column, one of the column of
\* the area
EntryAddCoordsCols ==
    {<<>>, << <<s_category_name, <<s_name, s_category>>>> >>,
     << <<s_category_name, <<s_country, s_category>>>> >>}

\* the specifications the checks at the head tell apart
CheckedParams(entry) ==
    {[EntryBase(entry) EXCEPT
         !.coords_cols = IF Layout(EntryBase(entry)) = "long" THEN LongCoordsCols(area)
                         ELSE WideCoordsCols(area, FALSE),
         !.coords_defaults = IF given THEN WideCoordsDefaults(area, FALSE) ELSE <<>>,
         !.add_coords_cols = add,
         !.omitted = IF given THEN @ ELSE @ \cup {"coords_defaults"}] :
        area \in {"cols", "defaults", "both", "nowhere"}, add \in EntryAddCoordsCols,
        given \in BOOLEAN}

\* a specification naming a column the file does not have
MissingColumn(entry) ==
    [EntryBase(entry) EXCEPT !.coords_cols = ItemPut(@, s_area, s_area)]

ConvertParams ==
    UNION {CheckedParams(entry) \cup Variants(EntryBase(entry)) \cup {MissingColumn(entry)} :
              entry \in Entries}

ConvertInit ==
    /\ AliasIdle
    /\ params \in ConvertParams
    /\ pc = params.entry
    /\ data_in \in IF Layout(params) = "long" THEN LongTables ELSE WideTables
    /\ data = data_in
    /\ res = [NoResult EXCEPT !.caller = data_in,
                              !.aliased = (params.entry = "convert_long_dataframe_if")]

\* the checks at the head of read_long_csv_file_if, which puts nothing in the
\* place of a coords_defaults left out
check_specification_none(coords_cols) ==
    IF \E i \in DOMAIN INTERCHANGE_FORMAT_MANDATORY_COLUMNS :
          INTERCHANGE_FORMAT_MANDATORY_COLUMNS[i] \notin ItemKeys(coords_cols)
    THEN "TypeError: argument of type 'NoneType' is not iterable"
    ELSE "AttributeError: 'NoneType' object has no attribute 'keys'"

\* read_wide_csv_file_if lines 775-782, read_long_csv_file_if lines 376-379
CheckFileArguments ==
    /\ pc \in {"read_wide_csv_file_if", "read_long_csv_file_if"}
    /\ LET raised ==
               IF pc = "read_long_csv_file_if" /\ "coords_defaults" \in params.omitted
               THEN check_specification_none(params.coords_cols)
               ELSE check_specification(params.coords_cols, params.coords_defaults,
                                        params.add_coords_cols)
       IN IF raised # NoError THEN Raise(raised)
          ELSE /\ pc' = "read_csv"
               /\ UNCHANGED <<params, data_in, data, res>>
               /\ UNCHANGED aliasVars

\* the columns of the file that add_coords_cols names
add_coords_col_names(add_coords_cols) ==
    {add_coords_cols[i][2][1] : i \in DOMAIN add_coords_cols}

\* read_wide_csv, for a file whose time columns hold numbers
ReadWideCsv ==
    /\ pc = "read_csv"
    /\ Layout(params) = "wide"
    /\ LET time_cols == SelectPositions(data_in.columns,
               LAMBDA i : matches_time_format(data_in.columns[i], params.time_format), 1)
           sources == {params.coords_cols[i][2] : i \in DOMAIN params.coords_cols}
           kept == SelectPositions(data_in.columns,
               LAMBDA i : data_in.columns[i] \in
                   sources \cup add_coords_col_names(params.add_coords_cols) \cup Range(time_cols), 1)
       IN IF sources \ Range(kept) # {}
          THEN /\ pc' = "raised"
               /\ res' = [res EXCEPT !.raised = "ValueError: Columns not found in CSV.",
                                     !.csv_read = TRUE]
               /\ UNCHANGED data
          ELSE /\ pc' = "convert_wide_dataframe_if"
               /\ data' = SelectColumns(data_in, kept)
               /\ res' = [res EXCEPT !.time_columns = time_cols, !.csv_read = TRUE]
    /\ UNCHANGED <<params, data_in>>
    /\ UNCHANGED aliasVars

\* read_long_csv, for a file whose data column holds numbers
ReadLongCsv ==
    /\ pc = "read_csv"
    /\ Layout(params) = "long"
    /\ LET usecols == {params.coords_cols[i][2] : i \in DOMAIN params.coords_cols}
                          \cup add_coords_col_names(params.add_coords_cols)
           kept == SelectPositions(data_in.columns, LAMBDA i : data_in.columns[i] \in usecols, 1)
           read == SelectColumns(data_in, kept)
           Parse(value) == IF can_parse(value, "%Y") THEN to_datetime(value, "%Y") ELSE value
       IN IF s_data \notin ItemKeys(params.coords_cols)
          THEN /\ pc' = "raised"
               /\ res' = [res EXCEPT !.raised = "ValueError: No data column in the CSV specified"]
               /\ UNCHANGED data
          ELSE IF usecols \ Range(data_in.columns) # {}
          THEN /\ pc' = "raised"
               /\ res' = [res EXCEPT !.raised = "ValueError: Usecols do not match columns",
                                     !.csv_read = TRUE]
               /\ UNCHANGED data
          ELSE /\ pc' = "convert_long_dataframe_if"
               /\ data' = IF s_time \in ItemKeys(params.coords_cols)
                          THEN MapColumn(read, ItemValue(params.coords_cols, s_time), Parse)
                          ELSE read
               /\ res' = [res EXCEPT !.csv_read = TRUE]
    /\ UNCHANGED <<params, data_in>>
    /\ UNCHANGED aliasVars

ConvertNext ==
    \/ CheckFileArguments
    \/ ReadWideCsv
    \/ ReadLongCsv
    \/ CheckArguments
    \/ FilterCopy
    \/ FilterInPlace
    \/ AddDimensionsFromDefaults
    \/ RenameColumns
    \/ AdditionalCoordinateMetadata
    \/ MapMetadata
    \/ FillFromOtherCol
    \/ HarmonizeCoords
    \/ HarmonizeParse
    \/ LongToWide
    \/ SortColumnsAndRows
    \/ AttachAttrs

SpecConvert == ConvertInit /\ [][ConvertNext]_vars

-----------------------------------------------------------------------------
(* A conversion run twice: the second call gets the specification objects  *)
(* of the first, as the first left them, and a table equal to the one the  *)
(* first was given.                                                        *)

RepeatEntries == {"convert_wide_dataframe_if", "convert_long_dataframe_if"}

RepeatParams == UNION {{EntryBase(entry)} \cup Variants(EntryBase(entry)) : entry \in RepeatEntries}

RepeatInit ==
    /\ ConvertInit
    /\ params \in RepeatParams

CallAgain ==
    /\ pc = "returned"
    /\ res.calls = 1
    /\ pc' = params.entry
    /\ data' = data_in
    /\ res' = [NoResult EXCEPT !.caller = data_in,
                               !.aliased = (params.entry = "convert_long_dataframe_if"),
                               !.calls = 2,
                               !.first = [data |-> data, attrs |-> res.if_attrs]]
    /\ UNCHANGED <<params, data_in>>
    /\ UNCHANGED aliasVars

RepeatNext ==
    \/ CheckArguments
    \/ FilterCopy
    \/ FilterInPlace
    \/ AddDimensionsFromDefaults
    \/ RenameColumns
    \/ AdditionalCoordinateMetadata
    \/ MapMetadata
    \/ FillFromOtherCol
    \/ HarmonizeCoords
    \/ HarmonizeParse
    \/ LongToWide
    \/ SortColumnsAndRows
    \/ AttachAttrs
    \/ CallAgain

SpecRepeat == RepeatInit /\ [][RepeatNext]_vars

-----------------------------------------------------------------------------
(* sort_columns_and_rows on its own, applied to a table and then to its    *)
(* own result.                                                             *)

\* all the lists of the members of S, each once
RECURSIVE ListsOf(_)
ListsOf(S) ==
    IF S = {} THEN {<<>>}
    ELSE UNION {{<<x>> \o p : p \in ListsOf(S \ {x})} : x \in S}

SortColumns == <<s_2020, s_unit, area_ISO2, s_gas, s_2019, area_ISO3>>

SortDimensions == ListsOf({s_unit, area_ISO2, s_gas, area_ISO3})

SortRows ==
    {(s_2020 :> Num(25, 0)) @@ (s_unit :> s_Gg) @@ (area_ISO2 :> s_DEU) @@ (s_gas :> s_CO2)
        @@ (s_2019 :> v) @@ (area_ISO3 :> a) :
        a \in {s_USA, s_DEU}, v \in {Num(1, 0), Num(1, 3)}}

SortTables ==
    UNION {{Frame(SortColumns, idx, rows) : idx \in IndexInputs(Len(rows))} :
              rows \in SeqsUpTo(SortRows, MaxSortRows)}

SortInit ==
    /\ AliasIdle
    /\ pc = "sort_columns_and_rows"
    /\ params \in [dimensions : SortDimensions]
    /\ data_in \in SortTables
    /\ data = data_in
    /\ res = [dimensions |-> <<>>, once |-> <<>>, dimensions_once |-> <<>>]

\* data, dimensions = sort_columns_and_rows(data, dimensions)
SortOnce ==
    /\ pc = "sort_columns_and_rows"
    /\ LET r == sort_columns_and_rows(data, params.dimensions)
       IN /\ data' = r.data
          /\ res' = [dimensions |-> r.dimensions, once |-> r.data,
                     dimensions_once |-> r.dimensions]
    /\ pc' = "sorted once"
    /\ UNCHANGED <<params, data_in>>
    /\ UNCHANGED aliasVars

\* the same call again, on the table and the dimensions it returned
SortAgain ==
    /\ pc = "sorted once"
    /\ LET r == sort_columns_and_rows(data, res.dimensions)
       IN /\ data' = r.data
          /\ res' = [res EXCEPT !.dimensions = r.dimensions]
    /\ pc' = "sorted twice"
    /\ UNCHANGED <<params, data_in>>
    /\ UNCHANGED aliasVars

SortNext == SortOnce \/ SortAgain

SpecSort == SortInit /\ [][SortNext]_vars

-----------------------------------------------------------------------------
(* The stage functions on their own: each is called once on arguments of   *)
(* its own, params.call naming the function.                               *)

s_sec_name == <<"s", "e", "c", "_", "n", "a", "m", "e">>

\* add_coords_cols entries: of category, of scenario, a second one of category
StageAddCoords ==
    {<<s_category_name, <<s_name, s_category>>>>,
     <<s_type, <<s_type, s_scenario>>>>,
     <<s_sec_name, <<s_country, s_category>>>>}

StageAddCoordsCols ==
    {s \in SeqsUpTo(StageAddCoords, MaxAddCoords) : \A i, j \in DOMAIN s : i # j => s[i] # s[j]}

StageCoordsCols ==
    {<< <<s_area, s_country>>, <<s_category, s_category>>, <<s_scenario, s_scenario>> >>,
     << <<s_area, s_country>>, <<s_category, s_category>> >>,
     << <<s_scenario, s_scenario>>, <<s_area, s_country>> >>,
     << <<s_area, s_country>> >>}

StageTerminologies ==
    {[k \in keys |-> IF k = s_category THEN s_IPCC2006 ELSE s_T] :
        keys \in SUBSET {s_category, s_category_name, s_type, s_area}}

StageResult == [raised |-> NoError]

AddCoordsInit ==
    /\ pc = "additional_coordinate_metadata"
    /\ params \in [call : {"additional_coordinate_metadata"},
                   add_coords_cols : StageAddCoordsCols, coords_cols : StageCoordsCols,
                   coords_terminologies : StageTerminologies]
    /\ data_in = <<>>

StageDefaults ==
    {<<s_scenario, s_HISTORY>>, <<s_time, s_2019>>, <<s_sec_class, s_2>>, <<s_foo, s_T>>,
     <<s_country, s_USA>>, <<s_source, s_T>>}

StageCoordsDefaults ==
    {s \in SeqsUpTo(StageDefaults, MaxDefaults) : \A i, j \in DOMAIN s : i # j => s[i] # s[j]}

AddDimensionsInit ==
    /\ pc = "add_dimensions_from_defaults"
    /\ params \in [call : {"add_dimensions_from_defaults"},
                   coords_defaults : StageCoordsDefaults,
                   additional_allowed_coords : {{}, {s_time}}]
    /\ data_in \in WideTables

MapColumns == <<s_area, s_category, s_entity, s_unit>>

MapRows ==
    {(s_area :> s_USA) @@ (s_category :> s_IPC1) @@ (s_entity :> e) @@ (s_unit :> s_Gg) :
        e \in {s_CO2, s_KYOTOGHG}}

MapTables == {Frame(MapColumns, RangeIndex(Len(rows)), rows) : rows \in SeqsUpTo(MapRows, MaxMapRows)}

\* the items of a coords_value_mapping: dicts, the preset where it is
\* defined, the preset where it is not, a name that is no preset
MapItems ==
    {<<s_entity, DictMapping(<< <<s_CO2, s_CH4>> >>)>>,
     <<s_entity, StrMapping("PRIMAP1")>>,
     <<s_unit, StrMapping("PRIMAP1")>>,
     <<s_category, StrMapping("PRIMAP1")>>,
     <<s_category, DictMapping(<< <<s_IPC1, s_1>> >>)>>,
     <<s_category, StrMapping("FOO")>>,
     <<s_area, StrMapping("PRIMAP1")>>}

MapMappings ==
    {s \in SeqsUpTo(MapItems, MaxMappings) : \A i, j \in DOMAIN s : i # j => s[i][1] # s[j][1]}

MapMetadataInit ==
    /\ pc = "map_metadata"
    /\ params \in [call : {"map_metadata"}, meta_mapping : MapMappings, attrs : {EmptyDict}]
    /\ data_in \in MapTables

\* rows whose unit is, for some, what the unit function makes of another's
ChainRows ==
    {(s_area :> s_USA) @@ (s_category :> s_1) @@ (s_entity :> r[1]) @@ (s_unit :> r[2]) :
        r \in {<<s_CO2, s_Gg>>, <<s_CO2, s_Gg_CO2_yr>>, <<s_CH4, s_Gg>>}}

ChainTables ==
    {Frame(MapColumns, RangeIndex(Len(rows)), rows) : rows \in SeqsUpTo(ChainRows, MaxMapRows)}

MapUnorderedInit ==
    /\ pc = "map_metadata_unordered"
    /\ params \in [call : {"map_metadata_unordered"},
                   meta_mapping : {<< <<s_unit, StrMapping("PRIMAP1")>> >>,
                                   << <<s_area, DictMapping(<< <<s_USA, s_DEU>> >>)>>,
                                      <<s_unit, StrMapping("PRIMAP1")>> >>},
                   attrs : {EmptyDict}]
    /\ data_in \in ChainTables

\* fill_from_other_col on its own: a table with qualified area and category
\* columns, and fillings whose triples overlap, chain and use short names
FillColumns == <<area_ISO3, category_T, s_category_name>>

FillRows ==
    {(area_ISO3 :> a) @@ (category_T :> s_1) @@ (s_category_name :> n) :
        a \in {s_USA, s_DEU}, n \in {s_Energy, s_fugitive}}

FillTables ==
    {Frame(FillColumns, [i \in DOMAIN rows |-> i - 1], rows) :
        rows \in UNION {[1..n -> FillRows] : n \in 0..MaxFillRows}}

FillAttrs == ("area" :> area_ISO3) @@ ("cat" :> category_T)

Fillings ==
    {<<>>,
     << <<s_category, << <<s_category_name, << <<s_Energy, s_1>>, <<s_fugitive, s_2>> >> >> >> >> >>,
     << <<s_category, << <<s_category_name, << <<s_Energy, s_2>> >> >>,
                         <<s_area, << <<s_USA, s_1>> >> >> >> >> >>,
     << <<s_area, << <<s_category_name, << <<s_Energy, s_DEU>> >> >> >> >>,
        <<s_category, << <<s_area, << <<s_DEU, s_2>> >> >> >> >> >>,
     << <<s_category, << <<s_category, << <<s_1, s_2>>, <<s_2, s_1>> >> >> >> >> >>,
     << <<s_category_name, << <<area_ISO3, << <<s_USA, s_fugitive>> >> >> >> >> >>}

FillInit ==
    /\ pc = "fill_from_other_col"
    /\ params \in [call : {"fill_from_other_col"},
                   coords_value_filling : Fillings,
                   attrs : {FillAttrs}]
    /\ data_in \in FillTables

\* harmonize_units on its own, with its optional arguments: the table has
\* both an entity column and a qualified one, holding different entities
entity_T == Qualified(s_entity, s_T)
OptionalColumns == <<s_area, s_entity, entity_T, s_unit, s_2019>>
OptionalDimensions == <<s_area, s_entity, entity_T, s_unit>>

OptionalRows ==
    {(s_area :> s_USA) @@ (s_entity :> e) @@ (entity_T :> t) @@ (s_unit :> u)
        @@ (s_2019 :> Num(1, 0)) :
        e \in {s_CO2, s_CH4}, t \in {s_CO2, s_CH4}, u \in {s_Gg, s_Mg}}

OptionalTables ==
    {Frame(OptionalColumns, RangeIndex(Len(rows)), rows) :
        rows \in SeqsUpTo(OptionalRows, MaxOptionalRows)}

HarmonizeOptionalInit ==
    /\ pc = "harmonize_units"
    /\ params \in [call : {"harmonize_units"},
                   omitted : SUBSET {"unit_col", "attrs"},
                   unit_col : {s_unit},
                   attrs : {EmptyDict, "entity_terminology" :> s_T},
                   dimensions : {OptionalDimensions}]
    /\ data_in \in OptionalTables

StageInit ==
    /\ AliasIdle
    /\ AddCoordsInit \/ AddDimensionsInit \/ MapMetadataInit \/ MapUnorderedInit
       \/ FillInit \/ HarmonizeOptionalInit
    /\ data = data_in
    /\ res = StageResult

\* additional_coordinates = additional_coordinate_metadata(add_coords_cols,
\* coords_cols, coords_terminologies)
CallAdditionalCoordinateMetadata ==
    /\ pc = "additional_coordinate_metadata"
    /\ res' = additional_coordinate_metadata(params.add_coords_cols, params.coords_cols,
                                             params.coords_terminologies, EmptyDict)
    /\ pc' = IF res'.raised # NoError THEN "raised" ELSE "returned"
    /\ UNCHANGED <<params, data_in, data>>
    /\ UNCHANGED aliasVars

\* add_dimensions_from_defaults(data, coords_defaults, additional_allowed_coords)
CallAddDimensionsFromDefaults ==
    /\ pc = "add_dimensions_from_defaults"
    /\ LET r == add_dimensions_from_defaults(data, params.coords_defaults,
                                             params.additional_allowed_coords)
       IN /\ data' = r.data
          /\ res' = [raised |-> r.raised, named |-> r.named]
          /\ pc' = IF r.raised # NoError THEN "raised" ELSE "returned"
    /\ UNCHANGED <<params, data_in>>
    /\ UNCHANGED aliasVars

\* map_metadata(data, meta_mapping=meta_mapping, attrs=attrs): the table and
\* the caller's meta_mapping are altered in place
CallMapMetadata ==
    /\ pc = "map_metadata"
    /\ params.call = "map_metadata"
    /\ LET r == map_metadata(data, params.meta_mapping, params.attrs)
       IN /\ data' = r.data
          /\ res' = [raised |-> r.raised, meta_mapping |-> r.meta_mapping]
          /\ pc' = IF r.raised # NoError THEN "raised" ELSE "returned"
    /\ UNCHANGED <<params, data_in>>
    /\ UNCHANGED aliasVars

\* map_metadata_unordered(data, meta_mapping=meta_mapping, attrs=attrs)
CallMapMetadataUnordered ==
    /\ pc = "map_metadata_unordered"
    /\ LET r == map_metadata_unordered(data, params.meta_mapping, params.attrs)
       IN /\ data' = r.data
          /\ res' = [raised |-> r.raised]
          /\ pc' = IF r.raised # NoError THEN "raised" ELSE "returned"
    /\ UNCHANGED <<params, data_in>>
    /\ UNCHANGED aliasVars

CallFillFromOtherCol ==
    /\ pc = "fill_from_other_col"
    /\ data' = fill_from_other_col(data, params.coords_value_filling, params.attrs)
    /\ res' = StageResult
    /\ pc' = "returned"
    /\ UNCHANGED <<params, data_in>>
    /\ UNCHANGED aliasVars

CallHarmonizeUnits ==
    /\ pc = "harmonize_units"
    /\ LET r == harmonize_units_defaults(data, params.omitted, params.unit_col,
                                         params.attrs, params.dimensions)
       IN /\ data' = r.data
          /\ res' = [raised |-> r.raised]
          /\ pc' = IF r.raised # NoError THEN "raised" ELSE "returned"
    /\ UNCHANGED <<params, data_in>>
    /\ UNCHANGED aliasVars

StageNext ==
    \/ CallAdditionalCoordinateMetadata
    \/ CallAddDimensionsFromDefaults
    \/ CallMapMetadata
    \/ CallMapMetadataUnordered
    \/ CallFillFromOtherCol
    \/ CallHarmonizeUnits

SpecStage == StageInit /\ [][StageNext]_vars

-----------------------------------------------------------------------------
(* Properties of the alias layer.                                          *)

\* translations.get(k, k) on the translation table of the current container
Resolved(k) == IF k \in DOMAIN dim_alias_translations THEN dim_alias_translations[k] ELSE k

\* C2: alias returns the resolved name when it is one of dims and fails with
\* DimensionNotExistingError carrying the resolved name otherwise; for a
\* sequence it returns the resolved names in order, with the same length,
\* and fails if any element does not resolve to a member of dims.
C2_AliasResolvesAndValidates ==
    /\ (op = "alias" /\ isinstance_str(arg)) =>
          IF Resolved(arg) \in Range(dims)
          THEN out.ok /\ out.val = Resolved(arg)
          ELSE ~out.ok /\ out.val = Resolved(arg)
    /\ op = "alias_seq" =>
          LET bad == {i \in DOMAIN arg : Resolved(arg[i]) \notin Range(dims)}
          IN IF bad = {}
             THEN /\ out.ok
                  /\ Len(out.val) = Len(arg)
                  /\ \A i \in DOMAIN arg : out.val[i] = Resolved(arg[i])
             ELSE ~out.ok /\ out.val = Resolved(arg[Min(bad)])

\* a list of two names, one of them an alias, was resolved
C2_Witness ==
    /\ op = "alias_seq"
    /\ Len(arg) = 2
    /\ out.ok
    /\ out.val[1] # arg[1]
    /\ out.val[2] = arg[2]

\* a single alias was rejected, the error carries the resolved name
C2_WitnessError ==
    /\ op = "alias"
    /\ ~out.ok
    /\ out.val # arg

\* C3 as stated: every key k of a mapping is replaced by translations.get(k, k)
\* and every value is the value the input held for k.
C3_EveryValueKept ==
    /\ op = "translate_str" => out = Resolved(arg)
    /\ op = "translate_map" =>
          /\ ItemKeys(out) = {Resolved(k) : k \in ItemKeys(arg)}
          /\ \A k \in ItemKeys(arg) : ItemValue(out, Resolved(k)) = ItemValue(arg, k)

\* C3 as amended: the result's keys are the resolved keys of the input, each
\* once; under a resolved name it holds the value of the last input key that
\* resolves to that name (so every value is kept when no two keys resolve to
\* the same name).
C3_LastValueKept ==
    /\ op = "translate_str" => out = Resolved(arg)
    /\ op = "translate_map" =>
          /\ ItemKeys(out) = {Resolved(k) : k \in ItemKeys(arg)}
          /\ Len(out) = Cardinality(ItemKeys(out))
          /\ \A i \in DOMAIN arg :
                (\A j \in DOMAIN arg : j > i => Resolved(arg[j][1]) # Resolved(arg[i][1]))
                    => ItemValue(out, Resolved(arg[i][1])) = arg[i][2]

\* a mapping with an alias key and a plain key was translated
C3_Witness ==
    /\ op = "translate_map"
    /\ Len(arg) = 2
    /\ Len(out) = 2
    /\ out[1][1] # arg[1][1]
    /\ out[2][1] = arg[2][1]

\* the "(" that opens the terminology is the one after the last " ("
Qualifies(d) == isinstance_str(d) /\ Contains(d, s_paren)

\* C4: the array-level table has, for every string axis name containing " (",
\* the text before " (" as key and the full name as value, and no other
\* entry; including for names with a "(" before the " (".  Stated for arrays
\* where no two axis names share the text before " (".
C4_ArrayTranslations ==
    (op = "dim_alias_translations" /\ kind = "da"
        /\ \A i, j \in DOMAIN dims :
              (i # j /\ Qualifies(dims[i]) /\ Qualifies(dims[j]))
                  => TextBefore(dims[i], s_paren) # TextBefore(dims[j], s_paren))
    => /\ \A i \in DOMAIN dims :
             Qualifies(dims[i]) =>
                 /\ TextBefore(dims[i], s_paren) \in DOMAIN out
                 /\ out[TextBefore(dims[i], s_paren)] = dims[i]
       /\ DOMAIN out = {TextBefore(dims[i], s_paren) : i \in {j \in DOMAIN dims : Qualifies(dims[j])}}

\* C5: on every container the alias layer operates on, no two axes share an
\* alias and no alias is itself an axis name.
C5_AliasesUniqueAndFree ==
    op = "dim_alias_translations" =>
        /\ \A i, j \in DOMAIN dims :
              (i # j /\ Qualifies(dims[i]) /\ Qualifies(dims[j]))
                  => TextBefore(dims[i], s_paren) # TextBefore(dims[j], s_paren)
        /\ \A k \in DOMAIN out : k \notin Range(dims)

\* C6: the dataset-level table maps category, scenario and area to the
\* attributes cat, scen and area that are present, and the text before " ("
\* of every sec_cats entry (the entry itself when it has no terminology) to
\* the entry; it has no other entry.
C6_DatasetTranslations ==
    (op = "dim_alias_translations" /\ kind = "ds") =>
        LET sec_cats == IF "sec_cats" \in DOMAIN attrs THEN attrs["sec_cats"] ELSE <<>>
            present == {i \in DOMAIN attr_pairs : attr_pairs[i][2] \in DOMAIN attrs}
        IN /\ \A i \in present : /\ attr_pairs[i][1] \in DOMAIN out
                                 /\ out[attr_pairs[i][1]] = attrs[attr_pairs[i][2]]
           /\ \A i \in DOMAIN sec_cats :
                 /\ TextBefore(sec_cats[i], s_paren) \in DOMAIN out
                 /\ out[TextBefore(sec_cats[i], s_paren)] = sec_cats[i]
           /\ DOMAIN out = {attr_pairs[i][1] : i \in present}
                              \cup {TextBefore(sec_cats[i], s_paren) : i \in DOMAIN sec_cats}

\* C7: the wrapper alias-resolves exactly the arguments bound to a parameter
\* named in args_to_alias, by keyword or by position (a variable-positional
\* parameter included, whatever follows it); the others are passed unchanged.
C7_WrapperResolvesBoundArguments ==
    op = "wrapped" =>
        LET m == arg.method
            dimset == Range(dims) \cup m.additional_allowed_values
            posAliased == {i \in DOMAIN arg.args : BoundParam(m.sig, i) \in m.args_to_alias}
            kwAliased == {k \in DOMAIN arg.kwargs : k \in m.args_to_alias}
            IsDim(v) == IF isinstance_str(v) THEN Resolved(v) \in dimset ELSE v \in dimset
        IN IF /\ \A i \in posAliased : IsDim(arg.args[i])
              /\ \A k \in kwAliased : IsDim(arg.kwargs[k])
           THEN /\ out.ok
                /\ Len(out.args) = Len(arg.args)
                /\ \A i \in DOMAIN arg.args :
                      out.args[i] = IF i \in posAliased THEN Resolved(arg.args[i])
                                    ELSE arg.args[i]
                /\ DOMAIN out.kwargs = DOMAIN arg.kwargs
                /\ \A k \in DOMAIN arg.kwargs :
                      out.kwargs[k] = IF k \in kwAliased THEN Resolved(arg.kwargs[k])
                                      ELSE arg.kwargs[k]
           ELSE ~out.ok

\* the mapping operations of C8
C8_MappingOps == {"da.pr.loc[]", "da.pr.loc[]=", "da.pr[mapping]", "ds.pr.loc[]", "ds.pr[mapping]"}
C8_StrOps == {"da.pr[hashable]", "ds.pr[str]"}

\* the mapping an indexing operation was given
C8_Given == IF op = "da.pr.loc[]=" THEN arg.key ELSE arg

\* C8 as stated: item access and loc indexing (get, and set on arrays) on
\* arrays and datasets replace every alias key of a mapping by its full name
\* with the values unchanged, then delegate; a single string key is resolved
\* through the same lookup.
C8_EveryIndexerTranslates ==
    /\ op \in C8_MappingOps =>
          /\ out.raised = ""
          /\ ItemKeys(out.key) = {Resolved(k) : k \in ItemKeys(C8_Given)}
          /\ \A k \in ItemKeys(C8_Given) :
                ItemValue(out.key, Resolved(k)) = ItemValue(C8_Given, k)
          /\ op = "da.pr.loc[]=" => out.value = arg.value
    /\ op \in C8_StrOps => out.raised = "" /\ out.key = Resolved(arg)

\* C8 as amended: loc indexing on arrays (get and set) and datasets (get) and
\* item access on datasets delegate with the mapping's keys resolved, a
\* resolved name holding the value of the last key that resolves to it, and
\* the assigned value unchanged; item access with a single key delegates the
\* resolved key; item access on an array with a mapping raises TypeError and
\* delegates nothing.
C8_IndexersTranslate ==
    /\ op \in C8_MappingOps \ {"da.pr[mapping]"} =>
          /\ out.raised = ""
          /\ ItemKeys(out.key) = {Resolved(k) : k \in ItemKeys(C8_Given)}
          /\ Len(out.key) = Cardinality(ItemKeys(out.key))
          /\ \A i \in DOMAIN C8_Given :
                (\A j \in DOMAIN C8_Given :
                    j > i => Resolved(C8_Given[j][1]) # Resolved(C8_Given[i][1]))
                    => ItemValue(out.key, Resolved(C8_Given[i][1])) = C8_Given[i][2]
          /\ op = "da.pr.loc[]=" => out.value = arg.value
    /\ op \in C8_StrOps => out.raised = "" /\ out.key = Resolved(arg)
    /\ op = "da.pr[mapping]" => out.raised = "TypeError" /\ out.key = <<>>

\* loc assignment on an array with an alias key was delegated under the full name
C8_Witness ==
    /\ op = "da.pr.loc[]="
    /\ Len(arg.key) = 1
    /\ out.raised = ""
    /\ out.key[1][1] # arg.key[1][1]
    /\ out.key[1][2] = arg.key[1][2]

-----------------------------------------------------------------------------
(* Properties of filter_data.                                              *)

\* a row satisfies a column condition of a filter specification
Satisfies(row, item) ==
    IF item[2].list THEN \E i \in DOMAIN item[2].v : row[item[1]] = item[2].v[i]
    ELSE row[item[1]] = item[2].v

\* a row satisfies every column condition of a filter specification
Matches(row, filter_spec) == \A i \in DOMAIN filter_spec : Satisfies(row, filter_spec[i])

\* the claim's condition for a row to survive
Survives(row) ==
    /\ params.filter_keep = <<>>
          \/ \E i \in DOMAIN params.filter_keep : Matches(row, params.filter_keep[i])
    /\ ~\E i \in DOMAIN params.filter_remove : Matches(row, params.filter_remove[i])

\* the positions of the input rows that survive, in input order
SurvivorPositions == SelectPositions(RangeIndex(Len(data_in.rows)),
                                     LAMBDA i : Survives(data_in.rows[i]), 1)

\* C1: a row survives filter_data exactly if it matches some keep filter (or
\* there is none) and no remove filter; the survivors keep their order and
\* are re-indexed 0..n-1.
C1_FilterData ==
    pc = "filtered" =>
        /\ Len(data.rows) = Len(SurvivorPositions)
        /\ \A k \in DOMAIN data.rows : data.rows[k] = data_in.rows[SurvivorPositions[k] + 1]
        /\ data.index = RangeIndex(Len(data.rows))
        /\ data.columns = data_in.columns

\* a table was filtered by a keep and a remove filter, a row in the middle
\* of the labels went, and the rest was re-indexed
C1_Witness ==
    /\ pc = "filtered"
    /\ params.filter_keep # <<>>
    /\ params.filter_remove # <<>>
    /\ Len(data_in.rows) = 2
    /\ Len(data.rows) = 1
    /\ data.rows[1] = data_in.rows[2]
    /\ data.index # data_in.index

-----------------------------------------------------------------------------
(* Properties of harmonize_units.                                          *)

\* the position of the first input row of the entity of row i
FirstOfEntity(i) ==
    Min({j \in DOMAIN data_in.rows : data_in.rows[j][s_entity] = data_in.rows[i][s_entity]})

\* C10: after harmonize_units every row carries the unit of the first row of
\* its entity; a row whose unit changed has every data column multiplied by
\* the factor from its former unit to that unit; every other row, and every
\* dimension column but unit, is unchanged.
C10_HarmonizeUnits ==
    (pc = "harmonized" /\ res.raised = "") =>
        /\ Len(data.rows) = Len(data_in.rows)
        /\ data.columns = data_in.columns
        /\ data.index = data_in.index
        /\ \A i \in DOMAIN data_in.rows :
              LET before == data_in.rows[i]
                  after == data.rows[i]
                  unit_to == data_in.rows[FirstOfEntity(i)][s_unit]
              IN /\ after[s_unit] = unit_to
                 /\ after[s_area] = before[s_area]
                 /\ after[s_entity] = before[s_entity]
                 /\ IF before[s_unit] = unit_to
                    THEN after = before
                    ELSE /\ ureg[before[s_unit]].dimension = ureg[unit_to].dimension
                         /\ \A c \in {s_2019, s_2020} :
                               /\ after[c].m = before[c].m
                               /\ after[c].e = before[c].e + ureg[before[s_unit]].exp
                                                  - ureg[unit_to].exp

\* an entity with three units was harmonized to its first one, beside an
\* entity that needed nothing
C10_Witness ==
    /\ pc = "harmonized"
    /\ res.raised = ""
    /\ Len(data_in.rows) = 3
    /\ data_in.rows[1][s_entity] = s_CO2
    /\ data_in.rows[2][s_entity] = s_CH4
    /\ data_in.rows[3][s_entity] = s_CO2
    /\ data_in.rows[1][s_unit] = s_Gg
    /\ data_in.rows[3][s_unit] = s_Mg
    /\ data.rows[3][s_unit] = s_Gg
    /\ data_in.rows[3][s_2019] = Num(1, 3)
    /\ data.rows[3][s_2019] = Num(1, 0)
    /\ data.rows[2] = data_in.rows[2]

-----------------------------------------------------------------------------
(* Properties of the wide conversion.                                      *)

IsTimeColumn(c) == matches_time_format(c, "%Y")

\* the place of a column in the column order, or one past its end
OrderRank(c) ==
    LET order == INTERCHANGE_FORMAT_COLUMN_ORDER
        hits == {i \in DOMAIN order : c = order[i] \/ StartsWith(c, order[i] \o s_paren)}
    IN IF hits = {} THEN Len(order) + 1 ELSE Min(hits)

\* the column a dimension of the specification is to be found under
QualifiedColumn(d) ==
    LET bare == IF StartsWith(d, SEC_CATS_PREFIX) THEN Drop(d, Len(SEC_CATS_PREFIX)) ELSE d
    IN IF d \in DOMAIN params.coords_terminologies
       THEN bare \o <<" ", "(">> \o params.coords_terminologies[d] \o <<")">>
       ELSE bare

SpecDimensions == ItemKeys(params.coords_cols) \cup ItemKeys(params.coords_defaults)

\* the columns of the table given that the specification does not name
Unreferenced ==
    {c \in Range(data_in.columns) :
        /\ ~IsTimeColumn(c)
        /\ c \notin {params.coords_cols[i][2] : i \in DOMAIN params.coords_cols}
        /\ c \notin {params.add_coords_cols[i][2][1] : i \in DOMAIN params.add_coords_cols}}

\* C9: a wide conversion that returns gives a table whose columns are the
\* dimensions of the specification under their terminology-qualified names
\* (with the auxiliary coordinates and the columns the specification does
\* not name), in the column order, followed by the time columns ascending;
\* attrs["dimensions"]["*"] is the columns that are neither time columns
\* nor auxiliary coordinates, in the order of the table.
C9_WideConversion ==
    pc = "returned" =>
        LET cols == data.columns
            aux == ItemKeys(params.add_coords_cols)
        IN /\ \A i, j \in DOMAIN cols :
                  (i < j /\ IsTimeColumn(cols[i])) =>
                      IsTimeColumn(cols[j]) /\ StrLess(cols[i], cols[j])
           /\ \A i, j \in DOMAIN cols :
                  (i < j /\ ~IsTimeColumn(cols[j])) =>
                      \/ OrderRank(cols[i]) < OrderRank(cols[j])
                      \/ /\ OrderRank(cols[i]) = Len(INTERCHANGE_FORMAT_COLUMN_ORDER) + 1
                         /\ OrderRank(cols[j]) = Len(INTERCHANGE_FORMAT_COLUMN_ORDER) + 1
                         /\ StrLess(cols[i], cols[j])
           /\ {c \in Range(cols) : ~IsTimeColumn(c)} =
                  {QualifiedColumn(d) : d \in SpecDimensions} \cup aux \cup Unreferenced
           /\ {c \in Range(cols) : IsTimeColumn(c)} =
                  {c \in Range(data_in.columns) : IsTimeColumn(c)}
           /\ res.if_attrs["dimensions"]["*"] =
                  SelectPositions(cols,
                      LAMBDA i : ~IsTimeColumn(cols[i]) /\ cols[i] \notin aux, 1)

\* a conversion returned a table with qualified dimensions, a secondary
\* category, an auxiliary coordinate and more than one row
C9_Witness ==
    /\ pc = "returned"
    /\ {s_area, s_category} \subseteq DOMAIN params.coords_terminologies
    /\ s_sec_type \in ItemKeys(params.coords_cols)
    /\ params.add_coords_cols # <<>>
    /\ Len(data.rows) = 2
    /\ data.columns[1] = Qualified(s_area, s_ISO3)
    /\ res.coords # res.if_attrs["dimensions"]["*"]
-----------------------------------------------------------------------------
(* Properties of sort_columns_and_rows.                                    *)

\* C11: sort_columns_and_rows applied to its own result, with the
\* dimensions it returned, gives the same columns in the same order, the
\* same rows in the same order, the same index and the same dimensions as
\* applying it once.
C11_SortIdempotent ==
    pc = "sorted twice" =>
        /\ data.columns = res.once.columns
        /\ data.rows = res.once.rows
        /\ data.index = res.once.index
        /\ res.dimensions = res.dimensions_once

\* the first application moved columns and relabelled the rows, two rows
\* agreed on every dimension, and two columns matched one name of the
\* column order
C11_Witness ==
    /\ pc = "sorted twice"
    /\ res.once.columns # data_in.columns
    /\ res.once.index # data_in.index
    /\ Len(data.rows) = 2
    /\ \A d \in Range(params.dimensions) : data.rows[1][d] = data.rows[2][d]
    /\ data.rows[1] # data.rows[2]
    /\ params.dimensions[1] = area_ISO2

-----------------------------------------------------------------------------
(* Validation of the specification                                         *)

\* the three conditions on a specification
specification_valid(p) ==
    /\ \A i \in DOMAIN INTERCHANGE_FORMAT_MANDATORY_COLUMNS :
          INTERCHANGE_FORMAT_MANDATORY_COLUMNS[i]
              \in ItemKeys(p.coords_cols) \cup ItemKeys(p.coords_defaults)
    /\ ItemKeys(p.coords_cols) \cap ItemKeys(p.coords_defaults) = {}
    /\ \A i \in DOMAIN p.add_coords_cols : \A j \in DOMAIN p.coords_cols :
          p.add_coords_cols[i][2][1] # p.coords_cols[j][2]

CheckValueErrors ==
    {"ValueError: Mandatory dimension not defined.",
     "ValueError: given in coords_cols and coords_defaults.",
     "ValueError: given in coords_cols and add_coords_cols."}

CheckStep == CheckArguments \/ CheckFileArguments

\* C12: in each entry point the checks at the head pass exactly the
\* specifications that cover every mandatory dimension in coords_cols or
\* coords_defaults, give no dimension in both and use no column both for a
\* dimension and for an auxiliary coordinate; every other specification is
\* rejected with a ValueError, and no CSV file has been read by then.
C12_ValidationAcceptsExactlyValid ==
    [][CheckStep =>
          /\ (pc' # "raised") <=> specification_valid(params)
          /\ pc' = "raised" => res'.raised \in CheckValueErrors /\ ~res'.csv_read]_vars

\* C13: a call that leaves coords_defaults out is checked as the same call
\* with an empty coords_defaults is: it raises what that call raises, and
\* nothing when coords_cols covers every mandatory dimension.
C13_OmittedDefaultsAreEmpty ==
    [][CheckStep /\ "coords_defaults" \in params.omitted =>
          res'.raised = check_specification(params.coords_cols, <<>>, params.add_coords_cols)]_vars

\* the keys coords_terminologies may have
terminology_key_known(key) ==
    key \in {s_area, s_category, s_scenario, s_entity} \/ StartsWith(key, SEC_CATS_PREFIX)

\* C14: a conversion given a coords_terminologies with a key that is none of
\* area, category, scenario, entity or sec_cats__<name> does not return a
\* table.
C14_UnknownTerminologyKeyRaises ==
    (\E key \in DOMAIN params.coords_terminologies : ~terminology_key_known(key))
        => pc # "returned"

-----------------------------------------------------------------------------
(* The place of filtering among the stages                                 *)

\* a row of the input, under its input column names and values, meets every
\* condition of a filter specification
RowMeets(row, filter_spec) ==
    \A i \in DOMAIN filter_spec :
        IF filter_spec[i][2].list THEN row[filter_spec[i][1]] \in Range(filter_spec[i][2].v)
        ELSE row[filter_spec[i][1]] = filter_spec[i][2].v

\* the rows of the input that the filters let through, in input order
Survivors ==
    SelectPositions(data_in.rows,
        LAMBDA i : /\ params.filter_keep # <<>> =>
                        \E k \in DOMAIN params.filter_keep :
                            RowMeets(data_in.rows[i], params.filter_keep[k])
                   /\ \A k \in DOMAIN params.filter_remove :
                        ~RowMeets(data_in.rows[i], params.filter_remove[k]), 1)

AfterFilter ==
    {"add_dimensions_from_defaults", "rename_columns", "additional_coordinate_metadata",
     "map_metadata", "fill_from_other_col", "coords", "long_to_wide"}

\* C15: in the wide and in the long path the table that reaches the stage
\* adding default columns holds, under the input's column names and with the
\* input's values, exactly the input rows that meet the filters, renumbered;
\* the stages up to the mapping and filling of values and the harmonisation
\* of units keep that number of rows, and the returned table has no more.
C15_FilterRunsFirst ==
    /\ pc = "add_dimensions_from_defaults" =>
          /\ Range(data.columns) \subseteq Range(data_in.columns)
          /\ data.index = RangeIndex(Len(Survivors))
          /\ Len(data.rows) = Len(Survivors)
          /\ \A i \in DOMAIN data.rows : \A c \in Range(data.columns) \ {s_year} :
                data.rows[i][c] = Survivors[i][c]
    /\ pc \in AfterFilter => Len(data.rows) = Len(Survivors)
    /\ pc \in {"sort_columns_and_rows", "interchange_format_attrs_dict", "returned"} =>
          Len(data.rows) <= Len(Survivors)

\* a row of the input that the filter removed would have been mapped to the
\* value the filter keeps; the conversion has returned
C15_Witness ==
    /\ pc = "returned"
    /\ Layout(params) = "long"
    /\ 0 < Len(Survivors) /\ Len(Survivors) < Len(data_in.rows)
    /\ params.filter_keep # <<>>
    /\ \E i \in DOMAIN params.coords_value_mapping : params.coords_value_mapping[i][1] = s_area

-----------------------------------------------------------------------------
(* What the caller of a conversion is left with                            *)

\* C16: when convert_long_dataframe_if or convert_wide_dataframe_if raises,
\* the data frame the caller passed in is as it was before the call.
C16_FailureLeavesInputAsItWas ==
    /\ pc = "raised"
    /\ params.entry \in {"convert_long_dataframe_if", "convert_wide_dataframe_if"}
    => res.caller = data_in

\* the errors of the specification: a mandatory dimension missing, a
\* dimension given twice, an unknown default, an auxiliary coordinate with a
\* terminology or of an unknown dimension
SpecificationErrors ==
    {"ValueError: Mandatory dimension not defined.",
     "ValueError: given in coords_cols and coords_defaults.",
     "ValueError: given in coords_defaults is unknown",
     "ValueError: has terminology definition",
     "ValueError: refers to unknown coordinate"}

\* C17: an error of the specification is raised by the step that an entry
\* point begins with, when nothing has been filtered, added or renamed yet.
C17_SpecificationErrorsFirst ==
    [][pc # "raised" /\ pc' = "raised" /\ res'.raised \in SpecificationErrors
          => pc \in Entries]_vars

-----------------------------------------------------------------------------
(* Repeated conversions                                                    *)

\* C18: a second run of a conversion with the same specification objects and
\* an equal table ends as the first did, returning an equal table with equal
\* attributes.
C18_SecondRunReturnsTheSame ==
    res.calls = 2 /\ pc \in {"returned", "raised"} =>
        /\ pc = "returned"
        /\ data = res.first.data
        /\ res.if_attrs = res.first.attrs

\* C19: through a call of convert_wide_dataframe_if, whether it returns or
\* raises, the data frame given as data_wide keeps its columns, rows, values
\* and index, and the table returned is another object.
C19_WideInputUntouched ==
    params.entry = "convert_wide_dataframe_if" =>
        /\ res.caller = data_in
        /\ pc = "returned" => ~res.aliased

\* a conversion that filtered, renamed and returned
C19_Witness ==
    /\ params.entry = "convert_wide_dataframe_if"
    /\ pc = "returned"
    /\ Len(data.rows) < Len(data_in.rows)
    /\ data.columns # data_in.columns
    /\ res.caller = data_in

-----------------------------------------------------------------------------
(* rename_columns                                                          *)

\* the column of dimension d: the terminology in brackets when there is one,
\* no sec_cats__ in front
ExpectedName(d) ==
    LET bare == IF StartsWith(d, SEC_CATS_PREFIX) THEN Drop(d, Len(SEC_CATS_PREFIX)) ELSE d
    IN IF d \in DOMAIN params.coords_terminologies
       THEN bare \o <<" ", "(">> \o params.coords_terminologies[d] \o <<")">>
       ELSE bare

\* the dimensions of the specification, coords_cols first
SpecifiedDimensions ==
    [i \in DOMAIN params.coords_cols |-> params.coords_cols[i][1]]
        \o [i \in DOMAIN params.coords_defaults |-> params.coords_defaults[i][1]]

SecondaryDimensions ==
    SelectPositions(SpecifiedDimensions,
        LAMBDA i : StartsWith(SpecifiedDimensions[i], SEC_CATS_PREFIX), 1)

-----------------------------------------------------------------------------
(* The stage functions, one by one                                         *)

\* an auxiliary coordinate whose name has a terminology
AuxHasTerminology ==
    \E i \in DOMAIN params.add_coords_cols :
        params.add_coords_cols[i][1] \in DOMAIN params.coords_terminologies

\* an auxiliary coordinate of a dimension that coords_cols does not have
AuxOfUnknownDimension ==
    \E i \in DOMAIN params.add_coords_cols :
        params.add_coords_cols[i][2][2] \notin ItemKeys(params.coords_cols)

\* C21: additional_coordinate_metadata raises exactly when an auxiliary
\* coordinate has a terminology or is of a dimension that is no key of
\* coords_cols, with the ValueError of a condition that holds; otherwise it
\* returns, for every auxiliary coordinate, its dimension, as "dim (T)" when
\* coords_terminologies gives T for the dimension and as "dim" when not.
C21_AdditionalCoordinateMetadata ==
    pc \in {"raised", "returned"} /\ params.call = "additional_coordinate_metadata" =>
        IF AuxHasTerminology \/ AuxOfUnknownDimension
        THEN /\ pc = "raised"
             /\ res.raised \in {"ValueError: has terminology definition",
                                "ValueError: refers to unknown coordinate"}
             /\ res.raised = "ValueError: has terminology definition" => AuxHasTerminology
             /\ res.raised = "ValueError: refers to unknown coordinate" => AuxOfUnknownDimension
        ELSE /\ pc = "returned"
             /\ DOMAIN res.additional_coordinates = ItemKeys(params.add_coords_cols)
             /\ \A i \in DOMAIN params.add_coords_cols :
                   LET dim == params.add_coords_cols[i][2][2]
                   IN res.additional_coordinates[params.add_coords_cols[i][1]] =
                         IF dim \in DOMAIN params.coords_terminologies
                         THEN dim \o <<" ", "(">> \o params.coords_terminologies[dim] \o <<")">>
                         ELSE dim

\* two auxiliary coordinates, one of them of a dimension with a terminology,
\* have been mapped
C21_Witness ==
    /\ pc = "returned"
    /\ params.call = "additional_coordinate_metadata"
    /\ Len(params.add_coords_cols) = 2
    /\ \E i \in DOMAIN params.add_coords_cols :
          params.add_coords_cols[i][2][2] \in DOMAIN params.coords_terminologies

\* a name that coords_defaults may have
RecognizedDefault(name) ==
    \/ name \in {s_area, s_category, s_entity, s_unit, s_scenario, s_source}
    \/ name \in params.additional_allowed_coords
    \/ StartsWith(name, SEC_CATS_PREFIX)

UnknownDefaults ==
    SelectPositions(params.coords_defaults,
        LAMBDA i : ~RecognizedDefault(params.coords_defaults[i][1]), 1)

\* C22: add_dimensions_from_defaults, given only names of interchange-format
\* columns (with "time" where the long path allows it) and sec_cats__ names,
\* leaves a table in which every row has each entry's value in the column
\* of the entry's name, the other columns as they were; given another name it
\* raises the ValueError that names the first such entry.
C22_AddDimensionsFromDefaults ==
    pc \in {"raised", "returned"} /\ params.call = "add_dimensions_from_defaults" =>
        IF UnknownDefaults = <<>>
        THEN /\ pc = "returned"
             /\ Len(data.rows) = Len(data_in.rows)
             /\ \A i \in DOMAIN params.coords_defaults :
                   /\ params.coords_defaults[i][1] \in Range(data.columns)
                   /\ \A k \in DOMAIN data.rows :
                         data.rows[k][params.coords_defaults[i][1]] = params.coords_defaults[i][2]
             /\ \A c \in Range(data_in.columns) \ ItemKeys(params.coords_defaults) :
                   /\ c \in Range(data.columns)
                   /\ \A k \in DOMAIN data.rows : data.rows[k][c] = data_in.rows[k][c]
        ELSE /\ pc = "raised"
             /\ res.raised = "ValueError: given in coords_defaults is unknown"
             /\ res.named = UnknownDefaults[1][1]

\* a secondary category and "time" have been added to a table with rows
C22_Witness ==
    /\ pc = "returned"
    /\ params.call = "add_dimensions_from_defaults"
    /\ ItemKeys(params.coords_defaults) = {s_time, s_sec_class}
    /\ Len(data.rows) = 2

\* an item of meta_mapping naming a preset that its column does not have
UnknownPreset(item) ==
    /\ item[2].kind = "str"
    /\ ~(item[2].v = "PRIMAP1" /\ item[1] \in {s_category, s_entity, s_unit})

\* the entity that the entity mapping of meta_mapping makes of e
MappedEntity(e) ==
    IF s_entity \notin ItemKeys(params.meta_mapping) THEN e
    ELSE LET mapping == ItemValue(params.meta_mapping, s_entity)
         IN IF mapping.kind = "str"
            THEN ItemValue(convert_entity_gwp_primap_to_primap2, <<e>>)
            ELSE IF e \in ItemKeys(mapping.v) THEN ItemValue(mapping.v, e) ELSE e

\* C23: map_metadata raises ValueError when an item names a preset that is
\* not defined for its column; otherwise every row has the entity that the
\* entity mapping gives and, under the unit preset, the unit that the unit
\* function gives for the row's unit and that mapped entity, wherever unit
\* and entity stand in meta_mapping.
C23_EntityMappedFirst ==
    pc \in {"raised", "returned"} /\ params.call = "map_metadata" =>
        IF \E i \in DOMAIN params.meta_mapping : UnknownPreset(params.meta_mapping[i])
        THEN pc = "raised" /\ res.raised = "ValueError: Unknown metadata mapping"
        ELSE /\ pc = "returned"
             /\ \A k \in DOMAIN data_in.rows :
                   /\ data.rows[k][s_entity] = MappedEntity(data_in.rows[k][s_entity])
                   /\ s_unit \in ItemKeys(params.meta_mapping) =>
                         data.rows[k][s_unit] =
                            ItemValue(convert_unit_primap_to_primap2,
                                <<data_in.rows[k][s_unit], MappedEntity(data_in.rows[k][s_entity])>>)

\* the unit preset stood before a mapping of entity that changed a row
C23_Witness ==
    /\ pc = "returned"
    /\ params.call = "map_metadata"
    /\ Len(params.meta_mapping) = 2
    /\ params.meta_mapping[1][1] = s_unit
    /\ params.meta_mapping[2][1] = s_entity
    /\ \E k \in DOMAIN data_in.rows : data.rows[k][s_entity] # data_in.rows[k][s_entity]

\* C24: after map_metadata_unordered with the unit preset, whose function
\* takes the entity as well, every row has the unit that the function gives
\* for the unit and the entity the row had before the call.
C24_EachRowMappedOnce ==
    pc = "returned" /\ params.call = "map_metadata_unordered" =>
        \A k \in DOMAIN data_in.rows :
            data.rows[k][s_unit] =
                ItemValue(convert_unit_primap_to_primap2,
                          <<data_in.rows[k][s_unit], data_in.rows[k][s_entity]>>)
\* the column a name of a filling specification stands for
FillColumn(name) ==
    IF name = s_area /\ "area" \in DOMAIN params.attrs THEN params.attrs["area"]
    ELSE IF name = s_category /\ "cat" \in DOMAIN params.attrs THEN params.attrs["cat"]
    ELSE name

\* the (target, source, source value, target value) triples in declared order
TriplesOfSource(target, source, cases) ==
    [i \in DOMAIN cases |-> <<target, source, cases[i][1], cases[i][2]>>]

RECURSIVE TriplesOfTarget(_, _)
TriplesOfTarget(target, sources) ==
    IF sources = <<>> THEN <<>>
    ELSE TriplesOfSource(target, sources[1][1], sources[1][2])
            \o TriplesOfTarget(target, Tail(sources))

RECURSIVE Triples(_)
Triples(filling) ==
    IF filling = <<>> THEN <<>>
    ELSE TriplesOfTarget(filling[1][1], filling[1][2]) \o Triples(Tail(filling))

\* one triple on the rows as they are when it is reached
AfterTriple(rows, t) ==
    [k \in DOMAIN rows |->
        [c \in DOMAIN rows[k] |->
            IF c = FillColumn(t[1]) /\ rows[k][FillColumn(t[2])] = t[3]
            THEN t[4] ELSE rows[k][c]]]

RECURSIVE AfterTriples(_, _)
AfterTriples(rows, triples) ==
    IF triples = <<>> THEN rows
    ELSE AfterTriples(AfterTriple(rows, triples[1]), Tail(triples))

FillTargets == {FillColumn(params.coords_value_filling[i][1]) :
                    i \in DOMAIN params.coords_value_filling}

\* C25: fill_from_other_col applies the triples one after the other in
\* declared order on the table as it then is, with short dimension names
\* resolved to the qualified column names; columns that are no target keep
\* their values, and so does the shape of the table
C25_FillAppliesTriplesInOrder ==
    (pc = "returned" /\ params.call = "fill_from_other_col") =>
        /\ data.columns = data_in.columns
        /\ data.index = data_in.index
        /\ data.rows = AfterTriples(data_in.rows, Triples(params.coords_value_filling))
        /\ \A k \in DOMAIN data.rows : \A c \in DOMAIN data.rows[k] :
              c \notin FillTargets => data.rows[k][c] = data_in.rows[k][c]

\* a short name was resolved, a later triple overwrote an earlier one, and a
\* row that matched nothing kept its value
C25_Witness ==
    /\ pc = "returned" /\ params.call = "fill_from_other_col"
    /\ Len(params.coords_value_filling) = 1
    /\ Len(params.coords_value_filling[1][2]) = 2
    /\ Len(data.rows) = 2
    /\ data_in.rows[1][area_ISO3] = s_USA /\ data_in.rows[1][s_category_name] = s_Energy
    /\ data.rows[1][category_T] = s_1
    /\ data_in.rows[2][area_ISO3] = s_DEU /\ data_in.rows[2][s_category_name] = s_fugitive
    /\ data.rows[2] = data_in.rows[2]
\* the columns the description of harmonize_units names for a call
NamedUnitColumn == IF "unit_col" \in params.omitted THEN s_unit ELSE params.unit_col

NamedEntityColumn ==
    IF "attrs" \notin params.omitted /\ "entity_terminology" \in DOMAIN params.attrs
    THEN Qualified(s_entity, params.attrs["entity_terminology"])
    ELSE s_entity

\* the first row of the table given that holds the entity of row i
FirstOfNamedEntity(i) ==
    CHOOSE j \in DOMAIN data_in.rows :
        /\ data_in.rows[j][NamedEntityColumn] = data_in.rows[i][NamedEntityColumn]
        /\ \A k \in 1 .. j - 1 :
              data_in.rows[k][NamedEntityColumn] # data_in.rows[i][NamedEntityColumn]

\* C26: harmonize_units completes whichever of unit_col and attrs is left
\* out, with "unit" as the unit column when unit_col is left out and
\* "entity", or "entity (<terminology>)" when attrs holds an entity
\* terminology, as the entity column: every row ends with the unit of the
\* first row of its entity
C26_OptionalArgumentsComplete ==
    (pc \in {"raised", "returned"} /\ params.call = "harmonize_units") =>
        /\ res.raised = NoError
        /\ \A i \in DOMAIN data.rows :
              data.rows[i][NamedUnitColumn] = data_in.rows[FirstOfNamedEntity(i)][NamedUnitColumn]

\* the same without the call that leaves out both
C26_OneArgumentGiven ==
    (pc \in {"raised", "returned"} /\ params.call = "harmonize_units"
        /\ params.omitted # {"unit_col", "attrs"}) =>
        /\ res.raised = NoError
        /\ \A i \in DOMAIN data.rows :
              data.rows[i][NamedUnitColumn] = data_in.rows[FirstOfNamedEntity(i)][NamedUnitColumn]
\* the names of the fixed column order that some dimension given matches
MatchedNames ==
    {n \in DOMAIN INTERCHANGE_FORMAT_COLUMN_ORDER :
        \E d \in Range(params.dimensions) :
            d = INTERCHANGE_FORMAT_COLUMN_ORDER[n]
            \/ StartsWith(d, INTERCHANGE_FORMAT_COLUMN_ORDER[n] \o <<" ", "(">>)}

\* s is in ascending order from position lo to position hi
Ascending(s, lo, hi) == \A i \in lo .. hi - 1 : StrLess(s[i], s[i + 1])

\* row a does not come after row b by the columns of by
NotAfter(a, b, by) ==
    \/ \A k \in DOMAIN by : a[by[k]] = b[by[k]]
    \/ \E k \in DOMAIN by :
          /\ \A m \in 1 .. k - 1 : a[by[m]] = b[by[m]]
          /\ StrLess(a[by[k]], b[by[k]])

Times_in(rows, r) == Cardinality({i \in DOMAIN rows : rows[i] = r})

\* C27: sort_columns_and_rows returns the columns given, each once: one
\* dimension column for each name of the fixed order that has one, in that
\* order, then the other dimension columns alphabetically, then the time
\* columns in ascending order; the rows given, ascending by the dimension
\* columns in that order and indexed 0..n-1; and as dimension list the
\* dimension columns in the order of the table
C27_SortColumnsAndRows ==
    pc = "sorted once" =>
        LET cols == data.columns
            n == Len(res.dimensions_once)
            k == Cardinality(MatchedNames)
        IN /\ Len(cols) = Len(data_in.columns)
           /\ Range(cols) = Range(data_in.columns)
           /\ res.dimensions_once = SubSeq(cols, 1, n)
           /\ Range(res.dimensions_once) = Range(params.dimensions)
           /\ \E f \in [1 .. k -> MatchedNames] :
                 /\ \A i \in 1 .. k : \A j \in 1 .. k : i < j => f[i] < f[j]
                 /\ \A i \in 1 .. k :
                       \/ cols[i] = INTERCHANGE_FORMAT_COLUMN_ORDER[f[i]]
                       \/ StartsWith(cols[i], INTERCHANGE_FORMAT_COLUMN_ORDER[f[i]] \o <<" ", "(">>)
           /\ Ascending(cols, k + 1, n)
           /\ Ascending(cols, n + 1, Len(cols))
           /\ data.index = [i \in DOMAIN data_in.rows |-> i - 1]
           /\ Len(data.rows) = Len(data_in.rows)
           /\ \A i \in DOMAIN data_in.rows :
                 Times_in(data.rows, data_in.rows[i]) = Times_in(data_in.rows, data_in.rows[i])
           /\ \A i \in DOMAIN data.rows : \A j \in DOMAIN data.rows :
                 i < j => NotAfter(data.rows[i], data.rows[j], res.dimensions_once)

\* two rows changed places, two columns matched the name area, of which the
\* second is placed with the other columns, and the time columns changed
\* places
C27_Witness ==
    /\ pc = "sorted once"
    /\ Len(data.rows) = 2
    /\ data.rows[1] = data_in.rows[2] /\ data.rows[2] = data_in.rows[1]
    /\ data.rows[1][area_ISO3] # data.rows[2][area_ISO3]
    /\ data_in.index # data.index
    /\ data.columns = <<area_ISO3, s_unit, area_ISO2, s_gas, s_2019, s_2020>>
\* the name of a time column: a year
IsYear(c) == Len(c) = 4 /\ \A i \in DOMAIN c : c[i] \in {"0", "1", "2", "3", "4", "5", "6", "7", "8", "9"}

AuxiliaryNames == {params.add_coords_cols[i][1] : i \in DOMAIN params.add_coords_cols}

\* the dimension columns of the returned table in its order, the auxiliary
\* coordinates left out
DimensionsWithoutAuxiliary ==
    SelectPositions(data.columns,
        LAMBDA i : ~IsYear(data.columns[i]) /\ data.columns[i] \notin AuxiliaryNames, 1)

\* the keys of the record, dimensions and the naming attributes, and the
\* meta_data of the caller left as it was
AttrsRecordShape ==
    /\ DOMAIN res.if_attrs =
          {"attrs", "time_format", "dimensions"}
             \cup (IF params.add_coords_cols # <<>> THEN {"additional_coordinates"} ELSE {})
    /\ res.if_attrs["time_format"] = params.time_format
    /\ DOMAIN res.if_attrs["dimensions"] = {"*"}
    /\ res.if_attrs["dimensions"]["*"] = DimensionsWithoutAuxiliary
    /\ s_category \in Range(SpecifiedDimensions) =>
          res.if_attrs["attrs"]["cat"] = ExpectedName(s_category)
    /\ s_scenario \in Range(SpecifiedDimensions) =>
          res.if_attrs["attrs"]["scen"] = ExpectedName(s_scenario)
    /\ s_area \in Range(SpecifiedDimensions) =>
          res.if_attrs["attrs"]["area"] = ExpectedName(s_area)
    /\ s_entity \in DOMAIN params.coords_terminologies =>
          res.if_attrs["attrs"]["entity_terminology"] = params.coords_terminologies[s_entity]
    /\ SecondaryDimensions # <<>> => "sec_cats" \in DOMAIN res.if_attrs["attrs"]
    /\ "meta_data" \notin params.omitted => res.meta_data = params.meta_data

\* C28: the record of a returned table has the keys attrs,
\* time_format and dimensions, and additional_coordinates exactly when an
\* auxiliary coordinate was declared; dimensions["*"] is the dimension
\* columns in sorted order without the auxiliary coordinates; attrs holds
\* every entry of the caller's meta_data (free-text keys, as the docstring
\* allows) and the naming attributes; the caller's meta_data is as it was
C28_AttrsRecord ==
    pc = "returned" =>
        /\ AttrsRecordShape
        /\ \A k \in DOMAIN params.meta_data :
              /\ k \in DOMAIN res.if_attrs["attrs"]
              /\ res.if_attrs["attrs"][k] = params.meta_data[k]

\* a table was returned for a call with an auxiliary coordinate and a
\* meta_data entry, and attrs has got entries that meta_data has not
C28_Witness ==
    /\ pc = "returned"
    /\ params.add_coords_cols # <<>>
    /\ "additional_coordinates" \in DOMAIN res.if_attrs
    /\ "title" \in DOMAIN params.meta_data
    /\ "area" \in DOMAIN res.if_attrs["attrs"]
    /\ "area" \notin DOMAIN res.meta_data
    /\ Len(res.coords) > Len(res.if_attrs["dimensions"]["*"])
\* the dimension columns of a long table other than time and unit
CombinationColumns(df) == Range(df.columns) \ {s_data, s_time, s_unit}

SameCombination(a, b, cols) == \A c \in cols : a[c] = b[c]

\* the long table has one unit for every combination
OneUnitEach(df) ==
    \A i \in DOMAIN df.rows : \A j \in DOMAIN df.rows :
        SameCombination(df.rows[i], df.rows[j], CombinationColumns(df)) =>
            df.rows[i][s_unit] = df.rows[j][s_unit]

\* wide is the pivot of long: a row for every combination, a column for every
\* formatted timestamp, the values in their cells and the units in theirs
PivotOf(long, wide, time_format) ==
    LET cols == CombinationColumns(long)
        Stamp(i) == strftime(long.rows[i][s_time], time_format)
        stamps == {Stamp(i) : i \in DOMAIN long.rows}
    IN /\ \A i \in DOMAIN long.rows :
             Cardinality({k \in DOMAIN wide.rows :
                             SameCombination(wide.rows[k], long.rows[i], cols)}) = 1
       /\ \A k \in DOMAIN wide.rows : \E i \in DOMAIN long.rows :
             SameCombination(wide.rows[k], long.rows[i], cols)
       /\ \A t \in stamps : Cardinality({p \in DOMAIN wide.columns : wide.columns[p] = t}) = 1
       /\ Range(wide.columns) = cols \cup stamps \cup {s_unit}
       /\ \A k \in DOMAIN wide.rows : \A t \in stamps :
             LET hits == {i \in DOMAIN long.rows :
                             /\ SameCombination(wide.rows[k], long.rows[i], cols)
                             /\ Stamp(i) = t}
             IN IF hits = {} THEN wide.rows[k][t] = NaN
                ELSE \A i \in hits : wide.rows[k][t] = long.rows[i][s_data]
       /\ \A k \in DOMAIN wide.rows : \A i \in DOMAIN long.rows :
             SameCombination(wide.rows[k], long.rows[i], cols) =>
                 wide.rows[k][s_unit] = long.rows[i][s_unit]

LongToWideStep ==
    pc = "long_to_wide" =>
        /\ OneUnitEach(data)
        /\ pc' = "sort_columns_and_rows" => PivotOf(data, data', params.time_format)

\* C29: in the long layout the table that long_to_wide is given has its units
\* harmonized, one unit for every combination of the dimensions other than
\* time and unit, and the table it returns has exactly one row for every such
\* combination, exactly one column for every formatted timestamp holding the
\* combination's value or a missing value, and that unit in the unit column
C29_HarmonizedThenPivoted == [][LongToWideStep]_vars

\* two rows of one combination, given in different units for different
\* years, have become one row in the first unit with both years filled
C29_Witness ==
    /\ pc = "sort_columns_and_rows"
    /\ Layout(params) = "long"
    /\ Len(data_in.rows) = 2
    /\ data_in.rows[1][s_country] = data_in.rows[2][s_country]
    /\ data_in.rows[1][s_unit] # data_in.rows[2][s_unit]
    /\ Len(data.rows) = 1
    /\ data.rows[1][s_unit] = data_in.rows[1][s_unit]
    /\ data.rows[1][s_2019] # NaN /\ data.rows[1][s_2020] # NaN
    /\ data.rows[1][s_2020] # data_in.rows[2][s_value]
\* C30: for every table returned, every alias that the attrs of its record
\* give (category by cat, scenario by scen, area by area, and one for every
\* entry of sec_cats) stands for a name that is a column of the table and a
\* member of dimensions["*"]
C30_AliasesNameDimensions ==
    pc = "returned" =>
        LET translations == ds_dim_alias_translations(res.if_attrs["attrs"])
        IN \A alias \in DOMAIN translations :
              /\ translations[alias] \in Range(data.columns)
              /\ translations[alias] \in Range(res.if_attrs["dimensions"]["*"])

====
